---- MODULE Spec2Model ----
(***************************************************************************)
(* Programs of matze/advent-of-code-2021.  Every program is a batch run    *)
(* over its own data, so each one has its own specifications below; the    *)
(* variables of the other programs stay idle:                              *)
(*   SpecNbhd      the neighbour enumerators of day09 and day11            *)
(*   SpecBasin     day09 Map::basin_size                                   *)
(*   Spec11        day11 solve_part_one / solve_part_two, flash by flash   *)
(*   SpecAnyOrder  the same, the cells of a wave taken in any order        *)
(*   Spec15        day15 solve                                             *)
(*   SpecEnlarge   day15 Map::enlarge                                      *)
(*   Spec12        day12 search_once and search_twice, round by round      *)
(*   Spec12Fair    the same on reduced candidates, no step ever withheld   *)
(*   SpecMain      main of day09, day11, day15 up to the loaded grid       *)
(*   Spec04        day04 Puzzle::process_bingo, number by number           *)
(*   Spec10        day10 parse_line                                        *)
(*   SpecCascade   day11 Grid::step after the cascade with a fired set     *)
(*   SpecDetour    day15 solve on grids where a way round is shorter       *)
(*   Spec08        day08 main: parse_lines, then part_one                  *)
(*   Spec06        day06 number_of_fish, day by day                        *)
(*   Spec05        day05 main: the two calls of solve, point by point      *)
(*   Spec05Walk    the same on other inputs, no step ever withheld         *)
(*   Spec13        day13 main: the first fold, then every fold in turn     *)
(***************************************************************************)
EXTENDS Integers, Sequences, FiniteSets, Bags, TLC

VARIABLES
    prog,            \* which program this run is: "day09", "day11", "day15", ...
    overflow_checks, \* build profile: TRUE = arithmetic overflow panics (debug)
    width,           \* day09 Map.width
    height,          \* day09 Map.height
    points,          \* day09 Map.points, points[y][x]
    call09,          \* day09: the last call made on the map and its arguments
    nb09,            \* day09: what Map::neighborhood returned (or a panic)
    basin,           \* day09: what Map::basin_size returned (or a panic)
    call11,          \* day11: the arguments of the last Neighborhood::new
    nb11,            \* day11: what Neighborhood::new(x, y).points() holds
    energy,          \* day11 Grid.energy, energy[x][y]
    solver,          \* day11: "part_one" or "part_two", the method main runs
    num_steps,       \* day11: solve_part_one's argument
    pc11,            \* day11: where the run is: "call", "charged", "flash", "returned", "done"
    flashes,         \* day11 step: the local counter `flashes`
    charged,         \* day11 step: what is left of the list the for loop walks
    total,           \* day11 solve_part_one: the sum so far
    step,            \* day11 solve_part_two: the local counter `step`
    returns,         \* day11: what each finished call of step() returned
    fired,           \* day11: the set of cells reset to 0 in the running call of step()
    swapped,         \* day11: a charged cell was taken before an adjacent earlier one
    start11,         \* day11: the grid the run started from
    M,               \* day15 Map<M, N>: the number of rows
    N,               \* day15 Map<M, N>: the number of columns
    grid,            \* day15 Map.grid, grid[row][col]
    pc15,            \* day15: "loaded" before solve is called, "solved" after
    dist,            \* day15 solve: its local `d`, the distance matrix
    answer,          \* day15 solve: the value returned
    enlarged,        \* day15 enlarge: the grid of the map returned
    input12,         \* day12: the lines of the input file, each split at '-'
    nodes,           \* day12 Graph.nodes
    edges,           \* day12 Graph.edges, pairs of indices into nodes
    pc12,            \* day12: "loaded", "once", "twice", "done" or "panicked"
    candidates,      \* day12 search_once / search_twice: the local `candidates`
    paths,           \* day12 search_once / search_twice: the local `paths`
    rounds,          \* day12: iterations of the running search's while loop so far
    count_once,      \* day12: what search_once returned
    count_twice,     \* day12: what search_twice returned
    text,            \* main of day09, day11, day15: the lines of the input file
    loaded,          \* main of day09, day11, day15: what the grid loader returned
    stdout,          \* main of day09, day11, day15: the lines printed so far
    pcMain,          \* main of day09, day11, day15: "start", "loaded", "failed" or "panicked"
    input04,         \* day04 process_bingo: the local `input`, the numbers to draw
    boards,          \* day04 process_bingo: the local `boards`
    boards0,         \* day04: the boards as they were read
    drawn,           \* day04 process_bingo: how many numbers the for loop has taken
    sums,            \* day04 process_bingo: the local `sums`
    result04,        \* day04: what process_bingo returned
    pc04,            \* day04: "drawing" or "returned"
    line10,          \* day10 parse_line: its argument, a sequence of characters
    parsed10,        \* day10 parse_line: the Line returned
    pc10,            \* day10: "call" before parse_line is called, "returned" after
    ref_order,       \* the cascade with a fired set: which cell it takes next
    ref_before,      \* the cascade with a fired set: the grid before the step
    ref_energy,      \* the cascade with a fired set: its grid
    ref_fired,       \* the cascade with a fired set: the cells marked fired
    ref_steps,       \* the cascade with a fired set: how many steps it has begun
    pcRef,           \* the cascade with a fired set: "idle", "cascade" or "done"
    lines08,         \* day08: the lines of the input, split at '|' and at white space
    parsed08,        \* day08 main: what parse_lines returned
    result08,        \* day08 main: what part_one returned
    pc08,            \* day08: "start", "parsed", "failed", "panicked" or "done"
    initial06,       \* day06 number_of_fish: the timers its argument `initial` holds
    num_days06,      \* day06 number_of_fish: its argument num_days
    stock,           \* day06 number_of_fish: the local `stock`, stock[timer]
    day06,           \* day06 number_of_fish: iterations of `for _ in 0..num_days` done
    school,          \* day06: the timers of the fish simulated one by one
    result06,        \* day06: what number_of_fish returned
    pc06,            \* day06: "call", "days" or "returned"
    segments05,      \* day05 main: the local `segments`
    part05,          \* day05 main: "one" or "two", the call of solve it is at
    todo05,          \* day05 solve: what the iterator `segments` still holds
    cur05,           \* day05 solve: the segment of the running iteration
    x05,             \* day05 solve: the local x
    y05,             \* day05 solve: the local y
    walked05,        \* day05 solve: iterations of the running while loop so far
    acc05,           \* day05 solve: the local acc, each point with its count
    results05,       \* day05 main: what the calls of solve have returned
    pc05,            \* day05: "call", "next", "walk" or "done"
    points13,        \* day13 main: the local `points`
    folds13,         \* day13 main: the local `folds`
    sheet13,         \* day13: `points` as it was before the latest fold of the loop
    folded13,        \* day13 main: folds of the for loop taken so far
    first13,         \* day13 main: what line 108 printed
    pc13             \* day13: "parsed", "folding", "folded" or "panicked"

vars09 == <<width, height, points, call09, nb09, basin>>
vars11nb == <<call11, nb11>>
vars11 == <<energy, solver, num_steps, pc11, flashes, charged, total, step, returns, fired, swapped, start11>>
vars15 == <<M, N, grid, pc15, dist, answer>>
vars15e == <<enlarged>>
vars12 == <<input12, nodes, edges, pc12, candidates, paths, rounds, count_once, count_twice>>
varsMain == <<text, loaded, stdout, pcMain>>
vars04 == <<input04, boards, boards0, drawn, sums, result04, pc04>>
vars10 == <<line10, parsed10, pc10>>
vars11ref == <<ref_order, ref_before, ref_energy, ref_fired, ref_steps, pcRef>>
vars08 == <<lines08, parsed08, result08, pc08>>
vars06 == <<initial06, num_days06, stock, day06, school, result06, pc06>>
vars05 == <<segments05, part05, todo05, cur05, x05, y05, walked05, acc05, results05, pc05>>
vars13 == <<points13, folds13, sheet13, folded13, first13, pc13>>
varsLate == <<vars11ref, vars08, vars06, vars05, vars13>>
varsRest == <<vars15e, vars12, varsMain, vars04, vars10, varsLate>>
vars == <<prog, overflow_checks, vars09, vars11nb, vars11, vars15, varsRest>>

-----------------------------------------------------------------------------
(* Bounds of the model *)

MaxWidth == 4
MaxHeight == 4
MaxBasinWidth == 3
MaxBasinHeight == 3
MaxSteps11 == 3
MaxM15 == 3
MaxN15 == 3
MaxEnlargeM == 2
MaxEnlargeN == 2
MaxRounds12 == 10
MaxTextLines == 3
MaxLineLen == 3
MaxStepsCascade == 2
MaxDetourM == 2
MaxDetourN == 3
WallWidth == 5
MaxLines08 == 3
MaxFish06 == 2
MaxDays06 == 12
MaxSegments05 == 3
MaxWalk05 == 9
MaxPoints13 == 2
LoadM15 == 2
LoadN15 == 2
MaxBoards04 == 2
MaxDraws04 == 3
MaxLen10 == 4

\* Risk levels the day15 grids are filled with.
Risks15 == {1, 9}

\* Risk levels the maps given to enlarge are filled with.
RisksEnlarge == {1, 5, 9}

\* Heights the maps are filled with: basin_size only tells 9 from below 9.
Heights09 == {8, 9}

-----------------------------------------------------------------------------
(* Helpers *)

\* The values of a call's variables before any call is made.
NoCall == [op |-> "none", x |-> 0, y |-> 0]
NoNeighborhood == [panic |-> FALSE, data |-> <<>>]
NotLoaded == [result |-> "none", grid |-> <<>>]
NoResult04 == [result |-> "none", first |-> 0, last |-> 0]
NoLine == [kind |-> "none", c |-> "", stack |-> <<>>]
NoBasin == [panic |-> FALSE, size |-> 0]

RECURSIVE SeqToSet(_)
SeqToSet(s) == IF s = <<>> THEN {} ELSE {Head(s)} \cup SeqToSet(Tail(s))

NoDuplicates(s) == \A i, j \in 1..Len(s) : i # j => s[i] # s[j]

\* usize `v - 1`. With overflow checks the subtraction 0 - 1 panics; without
\* them it wraps to usize::MAX, which stands here as the largest integer of
\* the model checker (2^64 - 1 is beyond it; only its being outside every
\* grid matters).
WrapSub1(v) == IF v = 0 THEN 2147483647 ELSE v - 1

Underflowed(data) == \E i \in 1..Len(data) : data[i][1] = WrapSub1(0) \/ data[i][2] = WrapSub1(0)

\* A call returns its data, or panics when a subtraction underflowed in a
\* build with overflow checks.
Returned(data) == [panic |-> overflow_checks /\ Underflowed(data), data |-> data]

-----------------------------------------------------------------------------
(* day09: Map::neighborhood, one definition per match arm *)

nbTopLeft09 == <<<<0, 1>>, <<1, 0>>>>

nbBottomRight09(x, y) == <<<<x, WrapSub1(y)>>, <<WrapSub1(x), y>>>>

nbTopRight09(x) == <<<<WrapSub1(x), 0>>, <<x, 1>>>>

nbTop09(x) == <<<<WrapSub1(x), 0>>, <<x, 1>>, <<x + 1, 0>>>>

nbBottomLeft09(y) == <<<<0, WrapSub1(y)>>, <<1, WrapSub1(y)>>>>

nbLeft09(y) == <<<<0, WrapSub1(y)>>, <<1, y>>, <<0, y + 1>>>>

nbBottom09(x, y) == <<<<WrapSub1(x), y>>, <<x + 1, y>>, <<x, WrapSub1(y)>>>>

nbRight09(x, y) == <<<<WrapSub1(x), y>>, <<x, WrapSub1(y)>>, <<x, y + 1>>>>

nbInside09_dup(x, y) == <<<<x, WrapSub1(y)>>, <<x, y + 1>>, <<WrapSub1(x), y>>, <<WrapSub1(x), y>>>>

nbInside09(x, y) == <<<<x, WrapSub1(y)>>, <<x, y + 1>>, <<WrapSub1(x), y>>, <<x + 1, y>>>>

\* The match of Map::neighborhood, arms in source order.
neighborhood(x, y) ==
    LET max_x == width - 1
        max_y == height - 1
    IN  Returned(
          IF x = 0 /\ y = 0 THEN nbTopLeft09
          ELSE IF x = max_x /\ y = max_y THEN nbBottomRight09(x, y)
          ELSE IF y = 0 /\ x = max_x THEN nbTopRight09(x)
          ELSE IF y = 0 THEN nbTop09(x)
          ELSE IF x = 0 /\ y = max_y THEN nbBottomLeft09(y)
          ELSE IF x = 0 THEN nbLeft09(y)
          ELSE IF y = max_y THEN nbBottom09(x, y)
          ELSE IF x = max_x THEN nbRight09(x, y)
          ELSE nbInside09(x, y))

-----------------------------------------------------------------------------
(* day11: Neighborhood::new, the grid is 10 x 10 by construction *)

nbCorner11(x, y) ==
    IF x = 0 /\ y = 0 THEN <<<<0, 1>>, <<1, 0>>, <<1, 1>>>>
    ELSE IF x = 0 /\ y = 9 THEN <<<<0, 8>>, <<1, 8>>, <<1, 9>>>>
    ELSE IF x = 9 /\ y = 0 THEN <<<<8, 0>>, <<8, 1>>, <<9, 1>>>>
    ELSE <<<<9, 8>>, <<8, 9>>, <<8, 8>>>>

nbBorder11(x, y) ==
    IF y = 0 THEN
        <<<<WrapSub1(x), 0>>, <<WrapSub1(x), 1>>, <<x, 1>>, <<x + 1, 1>>, <<x + 1, 0>>>>
    ELSE IF y = 9 THEN
        <<<<WrapSub1(x), 9>>, <<WrapSub1(x), 8>>, <<x, 8>>, <<x + 1, 8>>, <<x + 1, 9>>>>
    ELSE IF x = 0 THEN
        <<<<0, WrapSub1(y)>>, <<1, WrapSub1(y)>>, <<1, y>>, <<1, y + 1>>, <<0, y + 1>>>>
    ELSE
        <<<<9, WrapSub1(y)>>, <<8, WrapSub1(y)>>, <<8, y>>, <<8, y + 1>>, <<9, y + 1>>>>

nbInside11(x, y) ==
    << <<WrapSub1(x), WrapSub1(y)>>, <<WrapSub1(x), y>>, <<WrapSub1(x), y + 1>>,
       <<x, WrapSub1(y)>>, <<x, y + 1>>,
       <<x + 1, WrapSub1(y)>>, <<x + 1, y>>, <<x + 1, y + 1>> >>

\* The match of Neighborhood::new, arms in source order.
Neighborhood11(x, y) ==
    Returned(
      IF x \in {0, 9} /\ y \in {0, 9} THEN nbCorner11(x, y)
      ELSE IF y \in {0, 9} \/ x \in {0, 9} THEN nbBorder11(x, y)
      ELSE nbInside11(x, y))

-----------------------------------------------------------------------------
(* day09: Map::basin_size *)

\* points[y][x]: indexing outside the vectors panics in every build.
InMap(x, y) == x < width /\ y < height

\* The loop over one neighbourhood (lines 113-121); st = [panic, next, marked].
RECURSIVE ForNeighbours(_, _)
ForNeighbours(nbs, st) ==
    IF nbs = <<>> \/ st.panic THEN st
    ELSE LET x == Head(nbs)[1]
             y == Head(nbs)[2]
         IN  IF ~InMap(x, y) THEN [st EXCEPT !.panic = TRUE]
             ELSE IF points[y][x] < 9 /\ <<x, y>> \notin SeqToSet(st.marked)
                  THEN ForNeighbours(Tail(nbs),
                           [st EXCEPT !.next = Append(@, <<x, y>>),
                                      !.marked = Append(@, <<x, y>>)])
                  ELSE ForNeighbours(Tail(nbs), st)

\* The loop over `remaining` (lines 112-122).
RECURSIVE ForRemaining(_, _)
ForRemaining(remaining, st) ==
    IF remaining = <<>> \/ st.panic THEN st
    ELSE LET nb == neighborhood(Head(remaining)[1], Head(remaining)[2])
         IN  IF nb.panic THEN [st EXCEPT !.panic = TRUE]
             ELSE ForRemaining(Tail(remaining), ForNeighbours(nb.data, st))

\* The while loop (lines 109-125) and the count returned (line 127).
RECURSIVE WhileRemaining(_, _)
WhileRemaining(remaining, marked) ==
    IF remaining = <<>> THEN [panic |-> FALSE, size |-> Len(marked)]
    ELSE LET st == ForRemaining(remaining, [panic |-> FALSE, next |-> <<>>, marked |-> marked])
         IN  IF st.panic THEN [panic |-> TRUE, size |-> 0]
             ELSE WhileRemaining(st.next, st.marked)

basin_size(x, y) == WhileRemaining(<<<<x, y>>>>, <<>>)

-----------------------------------------------------------------------------
(* day11: Grid::charged and Grid::step *)

\* u8 `v += 1`: the cells are u8, so 255 + 1 wraps to 0 in a build without
\* overflow checks (and panics in one with them); no run here comes near it.
AddU8(v) == (v + 1) % 256

\* Lines 95-101: the charged cells of column x, from y on (the filter_map).
RECURSIVE ChargedInColumn(_, _, _)
ChargedInColumn(e, x, y) ==
    IF y = 10 THEN <<>>
    ELSE IF e[x][y] > 9
         THEN <<<<x, y>>>> \o ChargedInColumn(e, x, y + 1)
         ELSE ChargedInColumn(e, x, y + 1)

\* Lines 93-103: the columns' lists one after the other (the flat_map).
RECURSIVE ChargedFrom(_, _)
ChargedFrom(e, x) ==
    IF x = 10 THEN <<>> ELSE ChargedInColumn(e, x, 0) \o ChargedFrom(e, x + 1)

\* Grid::charged; the empty list stands for None.
Charged(e) == ChargedFrom(e, 0)

\* Lines 127-129 for one neighbour: skipped when its energy is 0.
BumpNeighbour_always(e, n) == [e EXCEPT ![n[1]][n[2]] = AddU8(@)]

BumpNeighbour(e, n) == IF e[n[1]][n[2]] > 0 THEN [e EXCEPT ![n[1]][n[2]] = AddU8(@)] ELSE e

\* Lines 126-130: the loop over the neighbourhood.
RECURSIVE BumpNeighbours(_, _)
BumpNeighbours(e, nbs) ==
    IF nbs = <<>> THEN e ELSE BumpNeighbours(BumpNeighbour(e, Head(nbs)), Tail(nbs))

\* Lines 124-130: one charged cell is reset and its neighbours are incremented.
FlashCell(e, c) == BumpNeighbours([e EXCEPT ![c[1]][c[2]] = 0], Neighborhood11(c[1], c[2]).data)

IncrementAll_none(e) == e

\* Lines 115-119: every cell is incremented.
IncrementAll(e) == [x \in 0..9 |-> [y \in 0..9 |-> AddU8(e[x][y])]]

\* Lines 122-131 as a whole: the for loop over one charged() list, in list order.
RECURSIVE FlashAll(_, _)
FlashAll(e, ch) == IF ch = <<>> THEN e ELSE FlashAll(FlashCell(e, Head(ch)), Tail(ch))

\* Lines 121-134: the while-let loop, and what step returns.
RECURSIVE Waves(_, _)
Waves(e, f) ==
    IF Charged(e) = <<>> THEN [energy |-> e, flashes |-> f]
    ELSE Waves(FlashAll(e, Charged(e)), f + Len(Charged(e)))

\* Grid::step as a function of the grid: the grid after it and the count returned.
StepOf(e) == Waves(IncrementAll(e), 0)

\* Grid::solve_part_one as a function of the grid and num_steps.
RECURSIVE PartOneOf(_, _)
PartOneOf(e, n) ==
    IF n = 0 THEN [energy |-> e, total |-> 0]
    ELSE LET s == StepOf(e)
             r == PartOneOf(s.energy, n - 1)
         IN  [energy |-> r.energy, total |-> s.flashes + r.total]

-----------------------------------------------------------------------------
(* day15: Map::distance_matrix and solve *)

Min(a, b) == IF a <= b THEN a ELSE b

Relax_left(g, row, col) ==
    IF row = 0 /\ col = 0 THEN 0
    ELSE IF row = 0 THEN g[0][col - 1]
    ELSE IF col = 0 THEN g[row - 1][0]
    ELSE g[row][col - 1]

Relax_diagonal(g, row, col) ==
    IF row = 0 /\ col = 0 THEN 0
    ELSE IF row = 0 THEN g[0][col - 1]
    ELSE IF col = 0 THEN g[row - 1][0]
    ELSE Min(g[row - 1][col - 1], Min(g[row][col - 1], g[row - 1][col]))

\* Lines 54-59: what is added to the cell's own value, read from the matrix
\* under construction.
Relax(g, row, col) ==
    IF row = 0 /\ col = 0 THEN 0
    ELSE IF row = 0 THEN g[0][col - 1]
    ELSE IF col = 0 THEN g[row - 1][0]
    ELSE Min(g[row][col - 1], g[row - 1][col])

\* Lines 51-61: the two loops, cell number k = row * n + col onwards, over
\* the matrix g under construction.
RECURSIVE Sweep(_, _, _, _, _)
Sweep(map, m, n, g, k) ==
    IF k = m * n THEN g
    ELSE LET row == k \div n
             col == k % n
         IN  Sweep(map, m, n,
                   [g EXCEPT ![row][col] = map[row][col] + Relax(g, row, col)],
                   k + 1)

\* Map::distance_matrix: the sweep over a matrix of zeros (line 49).
distance_matrix(map, m, n) ==
    Sweep(map, m, n, [row \in 0..(m - 1) |-> [col \in 0..(n - 1) |-> 0]], 0)

solve_keeps_origin(map, m, n) == distance_matrix(map, m, n)[m - 1][n - 1]

\* solve, lines 103-104.
solve(map, m, n) == distance_matrix(map, m, n)[m - 1][n - 1] - map[0][0]

-----------------------------------------------------------------------------
(* day15: Map::enlarge *)

NextRisk_zero(element) == IF element > 9 THEN 0 ELSE element

\* Lines 82 and 93: `if element > 9 { 1 } else { element }`.
NextRisk(element) == IF element > 9 THEN 1 ELSE element

\* Lines 68-72: the map copied into the top-left corner of a grid of zeros.
CopyOriginal(map, m, n) ==
    [row \in 0..(5 * m - 1) |-> [col \in 0..(5 * n - 1) |->
        IF row < m /\ col < n THEN map[row][col] ELSE 0]]

\* Lines 76-84 and 88-95: the loops over row and col that fill the tile at
\* (to_row, to_col) from the tile at (from_row, from_col), one added to each
\* element.  The two tiles never overlap, so every read is of g.
FillTile(g, m, n, from_row, from_col, to_row, to_col) ==
    [row \in DOMAIN g |->
        IF row \in (to_row * m)..(to_row * m + m - 1)
        THEN [col \in DOMAIN g[row] |->
                 IF col \in (to_col * n)..(to_col * n + n - 1)
                 THEN NextRisk(g[from_row * m + (row - to_row * m)]
                                [from_col * n + (col - to_col * n)] + 1)
                 ELSE g[row][col]]
        ELSE g[row]]

\* Lines 75-85: `for tile_col in 1..5`, from tile_col onwards.
RECURSIVE FillRight(_, _, _, _, _)
FillRight(g, m, n, tile_row, tile_col) ==
    IF tile_col = 5 THEN g
    ELSE FillRight(FillTile(g, m, n, tile_row, tile_col - 1, tile_row, tile_col),
                   m, n, tile_row, tile_col + 1)

\* Lines 74-97: `for tile_row in 0..5`, from tile_row onwards: the row of
\* tiles is filled to the right, then the first tile of the next row.
RECURSIVE FillTiles(_, _, _, _)
FillTiles(g, m, n, tile_row) ==
    IF tile_row = 5 THEN g
    ELSE LET right == FillRight(g, m, n, tile_row, 1)
             down == IF tile_row < 4
                     THEN FillTile(right, m, n, tile_row, 0, tile_row + 1, 0)
                     ELSE right
         IN  FillTiles(down, m, n, tile_row + 1)

\* Map::enlarge, lines 66-99: the grid of the map returned.
enlarge(map, m, n) == FillTiles(CopyOriginal(map, m, n), m, n, 0)

-----------------------------------------------------------------------------
(* day12: Graph and its two searches *)

\* The names that are all upper case, among the names the inputs use.
UpperCase12 == {"A", "B"}

\* impl From<&str> for Node, lines 26-40.
NodeFrom(value) ==
    IF value = "start" THEN [kind |-> "Start", name |-> ""]
    ELSE IF value = "end" THEN [kind |-> "End", name |-> ""]
    ELSE IF value \in UpperCase12 THEN [kind |-> "BigCave", name |-> value]
    ELSE [kind |-> "SmallCave", name |-> value]

Last(s) == s[Len(s)]
Front(s) == SubSeq(s, 1, Len(s) - 1)

\* iter().position(..): the index, from 0, of the first element equal to v.
IndexOf(s, v) == (CHOOSE i \in 1..Len(s) : s[i] = v /\ \A j \in 1..(i - 1) : s[j] # v) - 1

\* Lines 84-90: a node is pushed unless the list contains it.
PushNew(ns, n) == IF n \in SeqToSet(ns) THEN ns ELSE Append(ns, n)

\* Graph::new, lines 76-100, from line k of the input onwards; every line
\* has been split at '-' into its first two parts (parse_line).
RECURSIVE NewGraph(_, _, _, _)
NewGraph(lines, k, ns, es) ==
    IF k > Len(lines) THEN [nodes |-> ns, edges |-> es]
    ELSE LET n1 == NodeFrom(lines[k][1])
             n2 == NodeFrom(lines[k][2])
             ns2 == PushNew(PushNew(ns, n1), n2)
             i1 == IndexOf(ns2, n1)
             i2 == IndexOf(ns2, n2)
         IN  NewGraph(lines, k + 1, ns2, es \o << <<i1, i2>>, <<i2, i1>> >>)

\* Graph::start, lines 103-108, where a Start node exists.
HasStart == \E i \in 1..Len(nodes) : nodes[i].kind = "Start"
start == IndexOf(nodes, [kind |-> "Start", name |-> ""])

\* Graph::adjacent, lines 111-116.
adjacent(index) ==
    LET from == SelectSeq(edges, LAMBDA ed : ed[1] = index)
    IN  [i \in 1..Len(from) |-> from[i][2]]

\* Graph::node, lines 119-121.
node(index) == nodes[index + 1]

\* How many times the loop `for index in self.adjacent(last)` meets index.
Times(last, index) ==
    Cardinality({i \in 1..Len(adjacent(last)) : adjacent(last)[i] = index})

\* The Node::End arm, lines 136-140 and 181-185.
Completes(candidate, index) == node(index).kind = "End"

OnceKeeps_start(candidate, index) ==
    \/ node(index).kind \in {"BigCave", "Start"}
    \/ /\ node(index).kind = "SmallCave"
       /\ index \notin SeqToSet(candidate)

have_visited_twice_never(candidate) == FALSE

\* search_once, lines 145-157: the arms that push onto new_candidates.
OnceKeeps(candidate, index) ==
    \/ node(index).kind = "BigCave"
    \/ /\ node(index).kind = "SmallCave"
       /\ index \notin SeqToSet(candidate)

\* search_twice, lines 191-205.
have_visited_twice(candidate) ==
    LET smalls == SelectSeq(candidate, LAMBDA c : node(c).kind = "SmallCave")
        old_len == Len(smalls)
    IN  old_len > 0 /\ Cardinality(SeqToSet(smalls)) = old_len - 1

TwiceKeeps_and(candidate, index) ==
    \/ node(index).kind = "BigCave"
    \/ /\ node(index).kind = "SmallCave"
       /\ ~have_visited_twice(candidate) /\ index \notin SeqToSet(candidate)

\* search_twice, lines 190-221: the arms that push onto new_candidates.
TwiceKeeps(candidate, index) ==
    \/ node(index).kind = "BigCave"
    \/ /\ node(index).kind = "SmallCave"
       /\ ~have_visited_twice(candidate) \/ index \notin SeqToSet(candidate)

\* Which arm of the match pushes: the Node::End arm pushes onto paths, the
\* cave arms of search_once or of search_twice onto new_candidates.
Goes(arm, candidate, index) ==
    IF arm = "end" THEN Completes(candidate, index)
    ELSE IF arm = "once" THEN OnceKeeps(candidate, index)
    ELSE TwiceKeeps(candidate, index)

\* Lines 131-160 and 176-223: everything the two for loops push in the arm
\* named.  The order of a Vec of paths is never read (is_empty, iteration
\* and count only), so it is kept as a bag: each path with the number of
\* times the Vec holds it.
Pushed(cands, arm) ==
    LET pairs == {ci \in (DOMAIN cands) \X (0..(Len(nodes) - 1)) :
                     Times(Last(ci[1]), ci[2]) > 0 /\ Goes(arm, ci[1], ci[2])}
        pushed == {Append(ci[1], ci[2]) : ci \in pairs}
    IN  [path \in pushed |-> cands[Front(path)] * Times(Last(Front(path)), Last(path))]

-----------------------------------------------------------------------------
(* day12: what the claims about the paths held by the searches speak of *)

\* How many times the path holds the node with this index.
Visits(path, index) == Cardinality({i \in 1..Len(path) : path[i] = index})

SmallCaves12 == {index \in 0..(Len(nodes) - 1) : node(index).kind = "SmallCave"}

\* The small caves the path holds more than once.
RepeatedSmalls(path) == {index \in SmallCaves12 : Visits(path, index) >= 2}

-----------------------------------------------------------------------------
(* day08: parse_signal, parse_line, parse_lines and part_one *)

\* parse_signal, lines 45-57; a signal is the string of its segment letters.
\* Any other length panics (line 55).
SignalLengths08 == {2, 3, 4, 5, 6, 7}

parse_signal(signal) ==
    [kind |-> IF Len(signal) = 2 THEN "One"
              ELSE IF Len(signal) = 4 THEN "Four"
              ELSE IF Len(signal) = 3 THEN "Seven"
              ELSE IF Len(signal) = 7 THEN "Eight"
              ELSE IF Len(signal) = 5 THEN "UnknownFive"
              ELSE "UnknownSix",
     data |-> signal]

\* Lines 72-74 and 76-78: the first `count` signals of one side, from signal
\* k on; next() is None where the side has fewer (the ? returns the error),
\* and parse_signal panics on a signal of another length.
RECURSIVE ParseSide(_, _, _, _)
ParseSide(signals, count, k, done) ==
    IF k > count THEN [result |-> "Ok", candidates |-> done]
    ELSE IF k > Len(signals) THEN [result |-> "Err", candidates |-> <<>>]
    ELSE IF Len(signals[k]) \notin SignalLengths08 THEN [result |-> "panic", candidates |-> <<>>]
    ELSE ParseSide(signals, count, k + 1, Append(done, parse_signal(signals[k])))

\* parse_line, lines 59-81, of a line that holds a '|'.
parse_line08(line) ==
    LET input == ParseSide(line.left, 10, 1, <<>>)
        output == ParseSide(line.right, 4, 1, <<>>)
    IN  IF input.result # "Ok" THEN [result |-> input.result, input |-> <<>>, output |-> <<>>]
        ELSE IF output.result # "Ok" THEN [result |-> output.result, input |-> <<>>, output |-> <<>>]
        ELSE [result |-> "Ok", input |-> input.candidates, output |-> output.candidates]

\* parse_lines, lines 83-88: collect stops at the first line that fails.
RECURSIVE parse_lines(_, _, _)
parse_lines(lines, k, done) ==
    IF k > Len(lines) THEN [result |-> "Ok", entries |-> done]
    ELSE LET parsed == parse_line08(lines[k])
         IN  IF parsed.result # "Ok" THEN [result |-> parsed.result, entries |-> <<>>]
             ELSE parse_lines(lines, k + 1,
                              Append(done, [input |-> parsed.input, output |-> parsed.output]))

EasyKinds08 == {"One", "Four", "Seven", "Eight"}

\* Lines 94-97: the filter and count over one output.
CountOutput(output) ==
    Cardinality({i \in 1..Len(output) : ~(output[i].kind \in EasyKinds08)})

\* part_one, lines 90-100: the sum over the entries from entry k on.
RECURSIVE part_one(_, _)
part_one(parsed, k) ==
    IF k > Len(parsed) THEN 0
    ELSE CountOutput(parsed[k].output) + part_one(parsed, k + 1)

-----------------------------------------------------------------------------
(* day06: number_of_fish *)

\* Lines 5-10: one is added to stock[timer] for every timer read, from
\* timer number k on.  stock is indexed by 0..8.
RECURSIVE Stocked(_, _, _)
Stocked(timers, k, st) ==
    IF k > Len(timers) THEN st
    ELSE Stocked(timers, k + 1, [st EXCEPT ![timers[k]] = @ + 1])

NoStock == [timer \in 0..8 |-> 0]

NextDay_without7(values) ==
    [timer \in 0..8 |->
        IF timer = 6 THEN values[0]
        ELSE IF timer = 8 THEN values[0]
        ELSE values[timer + 1]]

\* Lines 13-23: one iteration of the loop over the days, every entry
\* assigned from the clone `values`.
NextDay(values) ==
    [timer \in 0..8 |->
        IF timer = 6 THEN values[0] + values[7]
        ELSE IF timer = 8 THEN values[0]
        ELSE values[timer + 1]]

\* Line 26: stock.iter().sum().
SumStock(st) == st[0] + st[1] + st[2] + st[3] + st[4] + st[5] + st[6] + st[7] + st[8]

-----------------------------------------------------------------------------
(* day05: Segment::diagonal and solve *)

Abs(v) == IF v < 0 THEN 0 - v ELSE v

\* Segment::diagonal, lines 37-41; a point is <<x, y>>.
diagonal(segment) ==
    /\ Abs(segment.start[1] - segment.end[1]) = Abs(segment.start[2] - segment.end[2])
    /\ segment.start[1] # segment.end[1]
    /\ segment.start[2] # segment.end[2]

Direction_forward(from, to) == IF from < to THEN 1 ELSE 0

\* Lines 102 and 103: dx from the two x, dy from the two y.
Direction(from, to) == IF from > to THEN -1 ELSE IF from < to THEN 1 ELSE 0

Insert_once(acc, x, y) == IF <<x, y>> \in DOMAIN acc THEN acc ELSE acc (+) SetToBag({<<x, y>>})

\* Lines 109 and 114: `*acc.entry(Point::new(x as usize, y as usize))
\* .or_insert(0) += 1`.  The cast of a negative v gives 2^64 + v, a key
\* that no other value of the walk gives; the key is written v here.
Insert(acc, x, y) == acc (+) SetToBag({<<x, y>>})

\* Line 117: acc.values().filter(|&c| c >= &2).count().
CountTwice(acc) == Cardinality({point \in DOMAIN acc : acc[point] >= 2})

\* main, line 123: segments.iter().filter(|&s| !s.diagonal()).
NotDiagonal(segments) == SelectSeq(segments, LAMBDA segment : ~diagonal(segment))

-----------------------------------------------------------------------------
(* day13: Point::fold and fold *)

\* A u32 is written as halves * 2^31 + units, the units far fewer than
\* 2^31, so that the numbers about 2^31 and 2^32 are compared, doubled and
\* subtracted exactly.
Num(halves, units) == [halves |-> halves, units |-> units]

Below(a, b) == a.halves < b.halves \/ (a.halves = b.halves /\ a.units < b.units)
Twice(a) == Num(2 * a.halves, 2 * a.units)
Minus(a, b) == Num(a.halves - b.halves, a.units - b.units)

\* The values of a u32: 0 to 2^32 - 1.
IsU32(v) == ~Below(v, Num(0, 0)) /\ Below(v, Num(2, 0))

\* What wrapping arithmetic keeps of a result that lies less than 2^32
\* outside the type.
WrapU32(v) ==
    IF Below(v, Num(0, 0)) THEN Num(v.halves + 2, v.units)
    ELSE IF Below(v, Num(2, 0)) THEN v
    ELSE Num(v.halves - 2, v.units)

\* Lines 69 and 80: `2 * fx - self.x`, the product first.  With overflow
\* checks either operation panics on a result outside u32; without them
\* both wrap.
Reflect(line, c) ==
    LET twice == Twice(line)
    IN  [panic |-> overflow_checks /\ (~IsU32(twice) \/ ~IsU32(Minus(twice, c))),
         value |-> WrapU32(Minus(WrapU32(twice), c))]

\* Point::fold, lines 61-86.
Point_fold(self, f) ==
    IF f.axis = "X"
    THEN IF Below(self.x, f.at)
         THEN [panic |-> FALSE, point |-> self]
         ELSE [panic |-> Reflect(f.at, self.x).panic,
               point |-> [x |-> Reflect(f.at, self.x).value, y |-> self.y]]
    ELSE IF Below(self.y, f.at)
         THEN [panic |-> FALSE, point |-> self]
         ELSE [panic |-> Reflect(f.at, self.y).panic,
               point |-> [x |-> self.x, y |-> Reflect(f.at, self.y).value]]

\* fold, lines 101-103: the images are collected into a HashSet.
fold(dots, f) ==
    [panic |-> \E p \in dots : Point_fold(p, f).panic,
     dots |-> {Point_fold(p, f).point : p \in dots}]

-----------------------------------------------------------------------------
(* The grid loaders: day09 Map::new, day11 Grid::new, day15 Map::new *)

Digits == <<"0", "1", "2", "3", "4", "5", "6", "7", "8", "9">>

\* char::to_digit(10) is Some for the ten decimal digits only.
IsDigit(c) == \E i \in 1..10 : Digits[i] = c
to_digit(c) == (CHOOSE i \in 1..10 : Digits[i] = c) - 1

Err == [result |-> "Err", grid |-> <<>>]
Ok(g) == [result |-> "Ok", grid |-> g]
Panic == [result |-> "panic", grid |-> <<>>]

\* day09 parse_line, lines 23-28: collect() stops at the first None.
parse_line09(line) ==
    IF \E i \in 1..Len(line) : ~IsDigit(line[i]) THEN Err
    ELSE Ok([i \in 1..Len(line) |-> to_digit(line[i])])

\* day09 Map::new, lines 47-61: collect() stops at the first line that does
\* not parse; points[0] (line 53) panics when there is no line at all.
new09(lines) ==
    IF \E k \in 1..Len(lines) : parse_line09(lines[k]).result = "Err" THEN Err
    ELSE LET pts == [k \in 1..Len(lines) |-> parse_line09(lines[k]).grid]
         IN  IF Len(pts) = 0 THEN Panic
             ELSE Ok([width |-> Len(pts[1]), height |-> Len(pts), points |-> pts])

\* day11 Grid::new, lines 70-90: ten lines are taken, and of each line its
\* first ten characters; every failure is the same Err.
new11(lines) ==
    IF \E y \in 0..9 :
          \/ y + 1 > Len(lines)
          \/ \E x \in 0..9 : \/ x + 1 > Len(lines[y + 1])
                              \/ ~IsDigit(lines[y + 1][x + 1])
    THEN Err
    ELSE Ok([x \in 0..9 |-> [y \in 0..9 |-> to_digit(lines[y + 1][x + 1])]])

\* day15 Map::new, lines 34-42: what stops the loop at a line of the first
\* m; len() counts bytes, which is the number of characters of these lines.
Rejected15(line, n) == Len(line) > n \/ \E i \in 1..Len(line) : ~IsDigit(line[i])

\* day15 Map::new, lines 25-46, with what it printed.  The lines are taken
\* in order: one of the first m that is rejected ends the loop before line
\* m + 1 is seen (lines 29-32).
new15(lines, m, n) ==
    IF \E k \in 1..Len(lines) : k <= m /\ Rejected15(lines[k], n)
    THEN [returned |-> Err, printed |-> <<>>]
    ELSE IF Len(lines) > m
    THEN [returned |-> Err, printed |-> <<"A">>]
    ELSE [returned |-> Ok([row \in 0..(m - 1) |-> [col \in 0..(n - 1) |->
                              IF row < Len(lines) /\ col < Len(lines[row + 1])
                              THEN to_digit(lines[row + 1][col + 1]) ELSE 0]]),
          printed |-> <<>>]

-----------------------------------------------------------------------------
(* day04: Board and Puzzle::process_bingo *)

\* The rows and the columns of a Board<N>; the boards of the model are
\* Board<2>.
Index04 == {0, 1}

\* enum Entry, lines 9-12.
Unmarked(x) == [marked |-> FALSE, number |-> x]
Marked(x) == [marked |-> TRUE, number |-> x]

\* Board::mark, lines 69-75.
mark(board, number) ==
    [row \in Index04 |-> [col \in Index04 |->
        IF board[row][col].number = number THEN Marked(number) ELSE board[row][col]]]

\* Board::complete, lines 77-101.
complete(board) ==
    \/ \E row \in Index04 : \A col \in Index04 : board[row][col].marked
    \/ \E col \in Index04 : \A row \in Index04 : board[row][col].marked

RECURSIVE SumOver(_, _)
SumOver(f, cells) ==
    IF cells = {} THEN 0
    ELSE LET cell == CHOOSE c \in cells : TRUE
         IN  f[cell] + SumOver(f, cells \ {cell})

\* Board::unmarked_sum, lines 103-112.
unmarked_sum(board) ==
    SumOver([cell \in Index04 \X Index04 |->
                IF board[cell[1]][cell[2]].marked THEN 0
                ELSE board[cell[1]][cell[2]].number],
            Index04 \X Index04)

RECURSIVE draw_nofilter(_, _, _, _)
draw_nofilter(bs, ss, number, k) ==
    IF k > Len(bs) THEN [boards |-> bs, sums |-> ss]
    ELSE LET board == mark(bs[k], number)
         IN  draw_nofilter([bs EXCEPT ![k] = board],
                           IF complete(board) THEN Append(ss, number * unmarked_sum(board)) ELSE ss,
                           number, k + 1)

\* process_bingo, lines 142-148: the inner for loop for one number, from
\* board k onwards; a board that is complete is passed over.
RECURSIVE draw(_, _, _, _)
draw(bs, ss, number, k) ==
    IF k > Len(bs) THEN [boards |-> bs, sums |-> ss]
    ELSE IF complete(bs[k]) THEN draw(bs, ss, number, k + 1)
    ELSE LET board == mark(bs[k], number)
         IN  draw([bs EXCEPT ![k] = board],
                  IF complete(board) THEN Append(ss, number * unmarked_sum(board)) ELSE ss,
                  number, k + 1)

-----------------------------------------------------------------------------
(* day10: parse_line *)

Openers == {"(", "[", "{", "<"}
Closers == {")", "]", "}", ">"}

opening_typo(c) ==
    IF c = ")" THEN "("
    ELSE IF c = "]" THEN "["
    ELSE IF c = "}" THEN "["
    ELSE "<"

\* opening, lines 20-28, for the four closing characters.
opening(c) ==
    IF c = ")" THEN "("
    ELSE IF c = "]" THEN "["
    ELSE IF c = "}" THEN "{"
    ELSE "<"

\* enum Line, lines 4-8.
Corrupt(c) == [kind |-> "Corrupt", c |-> c, stack |-> <<>>]
Incomplete(stack) == [kind |-> "Incomplete", c |-> "", stack |-> stack]
Good == [kind |-> "Good", c |-> "", stack |-> <<>>]

\* parse_line, lines 53-79: the for loop from character k onwards, then the
\* return; the strings are over the eight characters, so the panic arm
\* (line 71) is never taken.
RECURSIVE ParseFrom(_, _, _)
ParseFrom(s, k, stack) ==
    IF k > Len(s) THEN (IF stack = <<>> THEN Good ELSE Incomplete(stack))
    ELSE IF s[k] \in Openers THEN ParseFrom(s, k + 1, Append(stack, s[k]))
    ELSE IF stack = <<>> THEN Corrupt(s[k])
    ELSE IF stack[Len(stack)] # opening(s[k]) THEN Corrupt(s[k])
    ELSE ParseFrom(s, k + 1, SubSeq(stack, 1, Len(stack) - 1))

\* parse_line, lines 50-80.
parse_line(s) == ParseFrom(s, 1, <<>>)

-----------------------------------------------------------------------------
(* Idle values of each program's variables *)

Idle09 ==
    /\ width = 0
    /\ height = 0
    /\ points = <<>>
    /\ call09 = NoCall
    /\ nb09 = NoNeighborhood
    /\ basin = NoBasin

Idle11Nb ==
    /\ call11 = NoCall
    /\ nb11 = NoNeighborhood

Idle11 ==
    /\ energy = <<>>
    /\ solver = "none"
    /\ num_steps = 0
    /\ pc11 = "idle"
    /\ flashes = 0
    /\ charged = <<>>
    /\ total = 0
    /\ step = 0
    /\ returns = <<>>
    /\ fired = {}
    /\ swapped = FALSE
    /\ start11 = <<>>

Idle15 ==
    /\ M = 0
    /\ N = 0
    /\ grid = <<>>
    /\ pc15 = "idle"
    /\ dist = <<>>
    /\ answer = 0

Idle15e ==
    /\ enlarged = <<>>

Idle12 ==
    /\ input12 = <<>>
    /\ nodes = <<>>
    /\ edges = <<>>
    /\ pc12 = "idle"
    /\ candidates = EmptyBag
    /\ paths = EmptyBag
    /\ rounds = 0
    /\ count_once = 0
    /\ count_twice = 0

IdleMain ==
    /\ text = <<>>
    /\ loaded = NotLoaded
    /\ stdout = <<>>
    /\ pcMain = "idle"

Idle04 ==
    /\ input04 = <<>>
    /\ boards = <<>>
    /\ boards0 = <<>>
    /\ drawn = 0
    /\ sums = <<>>
    /\ result04 = NoResult04
    /\ pc04 = "idle"

Idle10 ==
    /\ line10 = <<>>
    /\ parsed10 = NoLine
    /\ pc10 = "idle"

Idle11Ref ==
    /\ ref_order = "none"
    /\ ref_before = <<>>
    /\ ref_energy = <<>>
    /\ ref_fired = {}
    /\ ref_steps = 0
    /\ pcRef = "idle"

NotParsed08 == [result |-> "none", entries |-> <<>>]

Idle08 ==
    /\ lines08 = <<>>
    /\ parsed08 = NotParsed08
    /\ result08 = 0
    /\ pc08 = "idle"

Idle06 ==
    /\ initial06 = <<>>
    /\ num_days06 = 0
    /\ stock = <<>>
    /\ day06 = 0
    /\ school = <<>>
    /\ result06 = 0
    /\ pc06 = "idle"

NoSegment == [start |-> <<0, 0>>, end |-> <<0, 0>>]

Idle05 ==
    /\ segments05 = <<>>
    /\ part05 = "none"
    /\ todo05 = <<>>
    /\ cur05 = NoSegment
    /\ x05 = 0
    /\ y05 = 0
    /\ walked05 = 0
    /\ acc05 = EmptyBag
    /\ results05 = <<>>
    /\ pc05 = "idle"

Idle13 ==
    /\ points13 = {}
    /\ folds13 = <<>>
    /\ sheet13 = {}
    /\ folded13 = 0
    /\ first13 = 0
    /\ pc13 = "idle"

IdleLate ==
    /\ Idle11Ref
    /\ Idle08
    /\ Idle06
    /\ Idle05
    /\ Idle13

IdleSecond ==
    /\ Idle15e
    /\ Idle12
    /\ IdleMain
    /\ Idle04
    /\ Idle10

\* The programs specified further down.
IdleRest ==
    /\ Idle15e
    /\ Idle12
    /\ IdleMain
    /\ Idle04
    /\ Idle10
    /\ IdleLate

-----------------------------------------------------------------------------
(* The neighbour enumerators, called on every cell of every grid size *)

\* Map::neighborhood reads width and height only; the heights are all 0 here.
InitNbhd09 ==
    /\ prog = "day09"
    /\ width \in 1..MaxWidth
    /\ height \in 1..MaxHeight
    /\ points = [y \in 0..(height - 1) |-> [x \in 0..(width - 1) |-> 0]]
    /\ call09 = NoCall
    /\ nb09 = NoNeighborhood
    /\ basin = NoBasin
    /\ Idle11Nb
    /\ Idle11
    /\ Idle15
    /\ IdleRest

InitNbhd11 ==
    /\ prog = "day11"
    /\ Idle09
    /\ Idle11Nb
    /\ Idle11
    /\ Idle15
    /\ IdleRest

InitNbhd ==
    /\ overflow_checks \in BOOLEAN
    /\ (InitNbhd09 \/ InitNbhd11)

CallNeighborhood09 ==
    /\ prog = "day09"
    /\ \E x \in 0..(width - 1), y \in 0..(height - 1) :
        /\ call09' = [op |-> "neighborhood", x |-> x, y |-> y]
        /\ nb09' = neighborhood(x, y)
    /\ UNCHANGED <<prog, overflow_checks, width, height, points, basin, vars11nb, vars11, vars15, varsRest>>

CallNeighborhood11 ==
    /\ prog = "day11"
    /\ \E x \in 0..9, y \in 0..9 :
        /\ call11' = [op |-> "new", x |-> x, y |-> y]
        /\ nb11' = Neighborhood11(x, y)
    /\ UNCHANGED <<prog, overflow_checks, vars09, vars11, vars15, varsRest>>

NextNbhd == CallNeighborhood09 \/ CallNeighborhood11

SpecNbhd == InitNbhd /\ [][NextNbhd]_vars

-----------------------------------------------------------------------------
(* Basin sizes, seeded at every cell of every small map *)

InitBasin ==
    /\ prog = "day09"
    /\ overflow_checks \in BOOLEAN
    /\ width \in 1..MaxBasinWidth
    /\ height \in 1..MaxBasinHeight
    /\ points \in [0..(height - 1) -> [0..(width - 1) -> Heights09]]
    /\ call09 = NoCall
    /\ nb09 = NoNeighborhood
    /\ basin = NoBasin
    /\ Idle11Nb
    /\ Idle11
    /\ Idle15
    /\ IdleRest

CallBasinSize ==
    /\ prog = "day09"
    /\ \E x \in 0..(width - 1), y \in 0..(height - 1) :
        /\ call09' = [op |-> "basin_size", x |-> x, y |-> y]
        /\ basin' = basin_size(x, y)
    /\ UNCHANGED <<prog, overflow_checks, width, height, points, nb09, vars11nb, vars11, vars15, varsRest>>

\* The basin's program makes no other call on the map in this specification.
NextBasin == CallBasinSize

SpecBasin == InitBasin /\ [][NextBasin]_vars

-----------------------------------------------------------------------------
(* What the claims about the neighbour enumerators speak of *)

Cells09 == {<<x, y>> : x \in 0..(width - 1), y \in 0..(height - 1)}

\* The in-bounds orthogonally adjacent cells of (x, y).
Orthogonal(x, y) ==
    {c \in Cells09 : \/ (c[1] = x /\ (c[2] = y + 1 \/ c[2] + 1 = y))
                     \/ (c[2] = y /\ (c[1] = x + 1 \/ c[1] + 1 = x))}

\* The cell's position in a w x h grid: 0 interior, 1 non-corner border, 2 corner.
Position(x, y, w, h) ==
    IF x \in {0, w - 1} /\ y \in {0, h - 1} THEN 2
    ELSE IF x \in {0, w - 1} \/ y \in {0, h - 1} THEN 1
    ELSE 0

Returned09 == prog = "day09" /\ call09.op = "neighborhood" /\ ~nb09.panic
Returned11 == prog = "day11" /\ call11.op = "new" /\ ~nb11.panic

\* C1: every coordinate Map::neighborhood returns for a cell of a W x H grid
\* (W, H >= 1) lies inside the grid, and every coordinate Neighborhood::new
\* returns for a cell of the 10 x 10 grid lies in 0..9 x 0..9.
C1_InBounds ==
    /\ Returned09 =>
          \A i \in 1..Len(nb09.data) : nb09.data[i][1] < width /\ nb09.data[i][2] < height
    /\ Returned11 =>
          \A i \in 1..Len(nb11.data) : nb11.data[i][1] \in 0..9 /\ nb11.data[i][2] \in 0..9

\* C2: the coordinates Map::neighborhood returns are exactly the in-bounds
\* orthogonally adjacent cells, at the corners too. Stated for the grids of
\* at least 2 x 2, where every cell has its neighbours inside the grid.
C2_Orthogonal ==
    (Returned09 /\ width >= 2 /\ height >= 2) =>
        SeqToSet(nb09.data) = Orthogonal(call09.x, call09.y)

-----------------------------------------------------------------------------
(* What the claims about basins speak of *)

\* The cells below 9 reached from `seen` over orthogonal steps through cells below 9.
RECURSIVE Grow(_)
Grow(seen) ==
    LET more == {c \in Cells09 :
                    /\ points[c[2]][c[1]] < 9
                    /\ \E d \in seen : c \in Orthogonal(d[1], d[2])}
    IN  IF more \subseteq seen THEN seen ELSE Grow(seen \cup more)

\* The maximal 4-connected region of cells below 9 that holds the seed.
Region(x, y) == Grow({<<x, y>>})

BasinCalled == prog = "day09" /\ call09.op = "basin_size"

\* C4: seeded at a cell below 9, basin_size is the number of cells of the
\* seed's region, the seed counted once, a region of the seed alone included.
\* Stated for the maps of at least 2 x 2.
C4_BasinSize ==
    (BasinCalled /\ width >= 2 /\ height >= 2 /\ points[call09.y][call09.x] < 9) =>
        /\ ~basin.panic
        /\ basin.size = Cardinality(Region(call09.x, call09.y))

\* C5: two cells below 9 of one basin have the same basin_size. Stated for
\* the maps of at least 2 x 2.
C5_SameBasinSameSize ==
    (BasinCalled /\ width >= 2 /\ height >= 2 /\ points[call09.y][call09.x] < 9) =>
        \A b \in Region(call09.x, call09.y) : basin_size(b[1], b[2]) = basin

-----------------------------------------------------------------------------
(* day15: solve, called on grids with walls to walk round *)

\* A column of three cells: free, or a wall with its gap at the top or at
\* the bottom.
WallColumns == { <<1, 1, 1>>, <<1, 9, 9>>, <<9, 9, 1>> }

\* The 3 x WallWidth grids made of these columns.
WallGrids ==
    {[row \in 0..2 |-> [col \in 0..(WallWidth - 1) |-> columns[col + 1][row + 1]]] :
        columns \in [1..WallWidth -> WallColumns]}

\*   1 9 1 1 1
\*   1 9 1 9 1
\*   1 1 1 9 1
DetourGrid ==
    [row \in 0..2 |-> [col \in 0..4 |->
        IF col = 1 /\ row < 2 THEN 9 ELSE IF col = 3 /\ row > 0 THEN 9 ELSE 1]]

InitDetour ==
    /\ prog = "day15_detour"
    /\ overflow_checks \in BOOLEAN
    /\ Idle09
    /\ Idle11Nb
    /\ Idle11
    /\ IdleRest
    /\ \/ /\ M \in 1..MaxDetourM
          /\ N \in 1..MaxDetourN
          /\ grid \in [0..(M - 1) -> [0..(N - 1) -> Risks15]]
       \/ /\ M = 3
          /\ N = WallWidth
          /\ grid \in WallGrids
       \/ /\ M = 3
          /\ N = 5
          /\ grid = DetourGrid
    /\ pc15 = "loaded"
    /\ dist = <<>>
    /\ answer = 0

\* main calls solve (lines 103-104, 110).
SolveDetour ==
    /\ prog = "day15_detour"
    /\ pc15 = "loaded"
    /\ dist' = distance_matrix(grid, M, N)
    /\ answer' = solve(grid, M, N)
    /\ pc15' = "solved"
    /\ UNCHANGED <<prog, overflow_checks, vars09, vars11nb, vars11, varsRest, M, N, grid>>

NextDetour == SolveDetour

SpecDetour == InitDetour /\ [][NextDetour]_vars

\* What the claim compares solve with: the least total of the cells entered
\* on a walk from the top-left to the bottom-right cell by steps up, down,
\* left and right.  Far stands for no walk: it is more than any walk that
\* enters no cell twice can total.
Far == 9 * M * N + 1

Cells15 == (0..(M - 1)) \X (0..(N - 1))

Adjacent4(c) == {b \in Cells15 : (b[1] = c[1] /\ b[2] - c[2] \in {-1, 1})
                                  \/ (b[2] = c[2] /\ b[1] - c[1] \in {-1, 1})}

LeastOf(values) == CHOOSE v \in values : \A w \in values : v <= w

\* least[k + 1] is the least total over the walks found so far to cell
\* number k = row * N + col.  One more step: the totals for cell number k
\* and the cells after it, as a sequence.
RECURSIVE OneMoreStep(_, _)
OneMoreStep(least, k) ==
    IF k = M * N THEN <<>>
    ELSE LET c == <<k \div N, k % N>>
         IN  <<LeastOf({least[k + 1]} \cup
                       {least[b[1] * N + b[2] + 1] + grid[c[1]][c[2]] : b \in Adjacent4(c)})>>
                 \o OneMoreStep(least, k + 1)

\* The least totals over the walks of k steps or fewer.
RECURSIVE Walks(_, _)
Walks(least, k) == IF k = 0 THEN least ELSE Walks(OneMoreStep(least, 0), k - 1)

\* The walk of no step is at the top-left cell, nothing entered.
RECURSIVE NoStep(_)
NoStep(k) == IF k = M * N THEN <<>> ELSE <<IF k = 0 THEN 0 ELSE Far>> \o NoStep(k + 1)

\* No shortest walk enters a cell twice, so M * N steps are enough.
Shortest == Walks(NoStep(0), M * N)[M * N]

SolvedDetour == prog = "day15_detour" /\ pc15 = "solved"

\* C28: solve never returns less than the least total over the walks by
\* steps up, down, left and right, and on the grid 19111 / 19191 / 11191
\* (values in 1..9) it returns strictly more.
C28_NotShortest ==
    SolvedDetour =>
        /\ answer >= Shortest
        /\ grid = DetourGrid => answer > Shortest

\* solve has returned 14 on that grid, where the walk down, right, up,
\* right, down costs 10.
C28_Witness ==
    /\ SolvedDetour
    /\ grid = DetourGrid
    /\ answer = 14
    /\ Shortest = 10

-----------------------------------------------------------------------------
(* day08: main *)

\* The example of tests::test_example, lines 146-155.
ExampleLines08 ==
    << [left |-> <<"be", "cfbegad", "cbdgef", "fgaecd", "cgeb", "fdcge", "agebfd", "fecdb", "fabcd", "edb">>,
        right |-> <<"fdgacbe", "cefdb", "cefbgd", "gcbe">>],
       [left |-> <<"edbfga", "begcd", "cbg", "gc", "gcadebf", "fbgde", "acbgfd", "abcde", "gfcbed", "gfec">>,
        right |-> <<"fcgedb", "cgb", "dgebacf", "gc">>],
       [left |-> <<"fgaebd", "cg", "bdaec", "gdafb", "agbcfd", "gdcbef", "bgcad", "gfac", "gcb", "cdgabef">>,
        right |-> <<"cg", "cg", "fdcagb", "cbg">>],
       [left |-> <<"fbegcd", "cbd", "adcefb", "dageb", "afcb", "bc", "aefdc", "ecdab", "fgdeca", "fcdbega">>,
        right |-> <<"efabcd", "cedba", "gadfec", "cb">>],
       [left |-> <<"aecbfdg", "fbg", "gf", "bafeg", "dbefa", "fcge", "gcbea", "fcaegb", "dgceab", "fcbdga">>,
        right |-> <<"gecf", "egdcabf", "bgf", "bfgea">>],
       [left |-> <<"fgeab", "ca", "afcebg", "bdacfeg", "cfaedg", "gcfdb", "baec", "bfadeg", "bafgc", "acf">>,
        right |-> <<"gebdcfa", "ecba", "ca", "fadegcb">>],
       [left |-> <<"dbcfg", "fgd", "bdegcaf", "fgec", "aegbdf", "ecdfab", "fbedc", "dacgb", "gdcebf", "gf">>,
        right |-> <<"cefg", "dcbef", "fcge", "gbcadfe">>],
       [left |-> <<"bdfegc", "cbegaf", "gecbf", "dfcage", "bdacg", "ed", "bedf", "ced", "adcbefg", "gebcd">>,
        right |-> <<"ed", "bcgafe", "cdgba", "cbgef">>],
       [left |-> <<"egadfb", "cdbfeg", "cegd", "fecab", "cgb", "gbdefca", "cg", "fgcdab", "egfdb", "bfceg">>,
        right |-> <<"gbdfcae", "bgc", "cg", "cgb">>],
       [left |-> <<"gcafb", "gcf", "dcaebfg", "ecagb", "gf", "abcdeg", "gaef", "cafbge", "fdbac", "fegbdc">>,
        right |-> <<"fgae", "cfgab", "fg", "bagce">>] >>

\* The ten patterns of a line, as in the first line of the example.
Left08 == ExampleLines08[1].left

\* Output sides: all of 1, 4, 7, 8; none of them; two of them; a signal
\* too few; a signal of one segment; a signal too many.
Rights08 ==
    { <<"ab", "abc", "abcd", "abcdefg">>,
      <<"abcde", "abcdef", "bcdef", "abcdeg">>,
      <<"ab", "abcde", "abcdefg", "abcdef">>,
      <<"ab", "abc", "abcd">>,
      <<"ab", "a", "abcd", "abcde">>,
      <<"ab", "ab", "ab", "abcde", "abc">> }

SmallLines08 == {[left |-> Left08, right |-> right] : right \in Rights08}

Inputs08 ==
    {ExampleLines08} \cup UNION {[1..n -> SmallLines08] : n \in 0..MaxLines08}

Unchanged08 ==
    UNCHANGED <<prog, overflow_checks, vars09, vars11nb, vars11, vars15, vars15e, vars12,
                varsMain, vars04, vars10, vars11ref, vars06, vars05, vars13>>

Init08 ==
    /\ prog = "day08"
    /\ overflow_checks \in BOOLEAN
    /\ Idle09
    /\ Idle11Nb
    /\ Idle11
    /\ Idle15
    /\ IdleSecond
    /\ Idle11Ref
    /\ Idle06
    /\ Idle05
    /\ Idle13
    /\ lines08 \in Inputs08
    /\ parsed08 = NotParsed08
    /\ result08 = 0
    /\ pc08 = "start"

\* main, line 121: parse_lines returns, and `?` ends main on an error.
ParseLines08 ==
    /\ prog = "day08"
    /\ pc08 = "start"
    /\ parsed08' = parse_lines(lines08, 1, <<>>)
    /\ pc08' = IF parsed08'.result = "Ok" THEN "parsed"
               ELSE IF parsed08'.result = "Err" THEN "failed"
               ELSE "panicked"
    /\ UNCHANGED <<lines08, result08>>
    /\ Unchanged08

\* main, line 122: part_one is called and its result printed.
PartOne08 ==
    /\ prog = "day08"
    /\ pc08 = "parsed"
    /\ result08' = part_one(parsed08.entries, 1)
    /\ pc08' = "done"
    /\ UNCHANGED <<lines08, parsed08>>
    /\ Unchanged08

Next08 == ParseLines08 \/ PartOne08

Spec08 == Init08 /\ [][Next08]_vars

\* The output signals of all parsed entries whose length is that of the
\* digit 1, 4, 7 or 8.
EasyOutputs08 ==
    {ki \in (1..Len(parsed08.entries)) \X (1..4) :
        Len(parsed08.entries[ki[1]].output[ki[2]].data) \in {2, 4, 3, 7}}

\* C21: when part_one has returned, what it returned is the number of
\* output signals, over all parsed entries, whose length is 2, 4, 3 or 7;
\* on the ten lines of the example that is 26.
C21_PartOne ==
    (prog = "day08" /\ pc08 = "done") =>
        /\ result08 = Cardinality(EasyOutputs08)
        /\ lines08 = ExampleLines08 => result08 = 26

-----------------------------------------------------------------------------
(* day06: a call of number_of_fish, one day of its loop at a time, and the *)
(* fish simulated one by one beside it                                     *)

\* The initial timers of tests::text_example (line 43).
ExampleTimers06 == <<3, 4, 3, 1, 2>>

\* trim().split(',') yields one element at least.
Timers06 == {ExampleTimers06} \cup UNION {[1..n -> 0..8] : n \in 1..MaxFish06}

\* One day of the fish one by one: a fish at 0 is reset to 6, every other
\* fish counts down by one, and every fish that was at 0 adds a fish at 8.
OneDayOfFish(fish) ==
    [i \in 1..Len(fish) |-> IF fish[i] = 0 THEN 6 ELSE fish[i] - 1]
        \o [i \in 1..Cardinality({j \in 1..Len(fish) : fish[j] = 0}) |-> 8]

Unchanged06 ==
    UNCHANGED <<prog, overflow_checks, vars09, vars11nb, vars11, vars15, vars15e, vars12,
                varsMain, vars04, vars10, vars11ref, vars08, vars05, vars13>>

Init06 ==
    /\ prog = "day06"
    /\ overflow_checks \in BOOLEAN
    /\ Idle09
    /\ Idle11Nb
    /\ Idle11
    /\ Idle15
    /\ IdleSecond
    /\ Idle11Ref
    /\ Idle08
    /\ Idle05
    /\ Idle13
    /\ initial06 \in Timers06
    /\ num_days06 \in 0..MaxDays06
    /\ stock = <<>>
    /\ day06 = 0
    /\ school = <<>>
    /\ result06 = 0
    /\ pc06 = "call"

\* Lines 5-10: the timers are counted into stock.  No sum of these runs
\* comes near the largest usize of any build.
ReadTimers ==
    /\ prog = "day06"
    /\ pc06 = "call"
    /\ stock' = Stocked(initial06, 1, NoStock)
    /\ school' = initial06
    /\ pc06' = "days"
    /\ UNCHANGED <<initial06, num_days06, day06, result06>>
    /\ Unchanged06

\* Lines 12-24: one iteration of the loop.
Day06 ==
    /\ prog = "day06"
    /\ pc06 = "days"
    /\ day06 < num_days06
    /\ stock' = NextDay(stock)
    /\ school' = OneDayOfFish(school)
    /\ day06' = day06 + 1
    /\ UNCHANGED <<initial06, num_days06, result06, pc06>>
    /\ Unchanged06

\* Line 26.
Return06 ==
    /\ prog = "day06"
    /\ pc06 = "days"
    /\ day06 = num_days06
    /\ result06' = SumStock(stock)
    /\ pc06' = "returned"
    /\ UNCHANGED <<initial06, num_days06, stock, day06, school>>
    /\ Unchanged06

Next06 == ReadTimers \/ Day06 \/ Return06

Spec06 == Init06 /\ [][Next06]_vars

\* How many of the fish simulated one by one are at this timer.
FishAt(timer) == Cardinality({i \in 1..Len(school) : school[i] = timer})

\* C22: number_of_fish returns the number of fish the simulation one by
\* one holds after num_days days; after every day stock holds, for every
\* timer, the number of those fish at that timer; and every day the total
\* grows by the number of fish that were at timer 0.
C22_SameAsPerFish ==
    /\ [](prog = "day06" =>
            /\ pc06 = "days" => \A timer \in 0..8 : stock[timer] = FishAt(timer)
            /\ pc06 = "returned" => day06 = num_days06 /\ result06 = Len(school))
    /\ [][(prog = "day06" /\ pc06 = "days" /\ day06' = day06 + 1) =>
              SumStock(stock') = SumStock(stock) + stock[0]]_vars

\* number_of_fish has returned for the timers 3,4,3,1,2 and the largest
\* number of days: as many as the fish simulated one by one, more than twice
\* the fish it began with.
C22_Witness ==
    /\ prog = "day06"
    /\ pc06 = "returned"
    /\ initial06 = ExampleTimers06
    /\ num_days06 = MaxDays06
    /\ result06 = Len(school)
    /\ result06 > 2 * Len(initial06)

-----------------------------------------------------------------------------
(* day05: main, the two calls of solve one point at a time *)

Seg(x1, y1, x2, y2) == [start |-> <<x1, y1>>, end |-> <<x2, y2>>]

\* The segments of tests::test_example, lines 145-154.
ExampleSegments05 ==
    << Seg(0, 9, 5, 9), Seg(8, 0, 0, 8), Seg(9, 4, 3, 4), Seg(2, 2, 2, 1), Seg(7, 0, 7, 4),
       Seg(6, 4, 2, 0), Seg(0, 9, 2, 9), Seg(3, 4, 1, 4), Seg(0, 0, 8, 8), Seg(5, 5, 8, 2) >>

Coords05 == {0, 1, 2}

\* Every segment between two points of the 3 x 3 grid, in both directions,
\* the segments of no length among them.
GridSegments05 == {Seg(a[1], a[2], b[1], b[2]) : a, b \in Coords05 \X Coords05}

\* A few of them: horizontal, vertical, at 45 degrees, of no length, and
\* slanted otherwise.
FewSegments05 ==
    { Seg(0, 1, 2, 1), Seg(1, 2, 1, 0), Seg(0, 0, 2, 2), Seg(2, 0, 0, 2), Seg(1, 1, 1, 1),
      Seg(0, 0, 2, 1), Seg(1, 2, 0, 0) }

\* Every list of one or two segments of the grid, and the example.
Inputs05 ==
    {ExampleSegments05} \cup UNION {[1..n -> GridSegments05] : n \in 0..2}

\* Every segment of the grid alone, the lists of a few segments, and the
\* example.
InputsWalk05 ==
    {ExampleSegments05} \cup {<<segment>> : segment \in GridSegments05}
        \cup UNION {[1..n -> FewSegments05] : n \in 0..MaxSegments05}

Unchanged05 ==
    UNCHANGED <<prog, overflow_checks, vars09, vars11nb, vars11, vars15, vars15e, vars12,
                varsMain, vars04, vars10, vars11ref, vars08, vars06, vars13>>

\* main, line 122: the segments are parsed.
Parsed05(inputs) ==
    /\ overflow_checks \in BOOLEAN
    /\ Idle09
    /\ Idle11Nb
    /\ Idle11
    /\ Idle15
    /\ IdleSecond
    /\ Idle11Ref
    /\ Idle08
    /\ Idle06
    /\ Idle13
    /\ segments05 \in inputs
    /\ part05 = "one"
    /\ todo05 = <<>>
    /\ cur05 = NoSegment
    /\ x05 = 0
    /\ y05 = 0
    /\ walked05 = 0
    /\ acc05 = EmptyBag
    /\ results05 = <<>>
    /\ pc05 = "call"

Init05 == prog = "day05" /\ Parsed05(Inputs05)

\* main calls solve, line 123 or 124; line 99.
CallSolve ==
    /\ pc05 = "call"
    /\ todo05' = IF part05 = "one" THEN NotDiagonal(segments05) ELSE segments05
    /\ acc05' = EmptyBag
    /\ pc05' = "next"
    /\ UNCHANGED <<segments05, part05, cur05, x05, y05, walked05, results05>>
    /\ Unchanged05

\* Lines 101-106: the for loop takes the next segment.
NextSegment ==
    /\ pc05 = "next"
    /\ todo05 # <<>>
    /\ cur05' = Head(todo05)
    /\ todo05' = Tail(todo05)
    /\ x05' = Head(todo05).start[1]
    /\ y05' = Head(todo05).start[2]
    /\ walked05' = 0
    /\ pc05' = "walk"
    /\ UNCHANGED <<segments05, part05, acc05, results05>>
    /\ Unchanged05

\* Lines 108-112: one iteration of the while loop.  The walk is followed
\* for MaxWalk05 iterations.
WalkOn ==
    /\ pc05 = "walk"
    /\ x05 # cur05.end[1] \/ y05 # cur05.end[2]
    /\ walked05 < MaxWalk05
    /\ acc05' = Insert(acc05, x05, y05)
    /\ x05' = x05 + Direction(cur05.start[1], cur05.end[1])
    /\ y05' = y05 + Direction(cur05.start[2], cur05.end[2])
    /\ walked05' = walked05 + 1
    /\ UNCHANGED <<segments05, part05, todo05, cur05, results05, pc05>>
    /\ Unchanged05

\* Lines 108 and 114: the while loop ends and the end point is counted.
WalkEnds ==
    /\ pc05 = "walk"
    /\ x05 = cur05.end[1]
    /\ y05 = cur05.end[2]
    /\ acc05' = Insert(acc05, x05, y05)
    /\ pc05' = "next"
    /\ UNCHANGED <<segments05, part05, todo05, cur05, x05, y05, walked05, results05>>
    /\ Unchanged05

\* Line 117: the for loop is over and solve returns; main prints the
\* result and goes on (lines 123-126).
SolveReturns ==
    /\ pc05 = "next"
    /\ todo05 = <<>>
    /\ results05' = Append(results05, CountTwice(acc05))
    /\ part05' = "two"
    /\ pc05' = IF part05 = "one" THEN "call" ELSE "done"
    /\ UNCHANGED <<segments05, todo05, cur05, x05, y05, walked05, acc05>>
    /\ Unchanged05

Next05 ==
    \/ CallSolve
    \/ NextSegment
    \/ WalkOn
    \/ WalkEnds
    \/ SolveReturns

Spec05 == Init05 /\ [][Next05]_vars

InitWalk05 == prog = "day05_walk" /\ Parsed05(InputsWalk05)

\* The program is sequential and is never suspended: a step that can be
\* taken is taken.
Spec05Walk == InitWalk05 /\ [][Next05]_vars /\ WF_vars(Next05)

-----------------------------------------------------------------------------
(* What the claims about the segments speak of *)

DeltaX(segment) == segment.end[1] - segment.start[1]
DeltaY(segment) == segment.end[2] - segment.start[2]

Horizontal(segment) == DeltaY(segment) = 0
Vertical(segment) == DeltaX(segment) = 0

\* Exactly 45 degrees: as far in x as in y, and not of length 0.
At45(segment) == Abs(DeltaX(segment)) = Abs(DeltaY(segment)) /\ DeltaX(segment) # 0

Straight(segment) == Horizontal(segment) \/ Vertical(segment) \/ At45(segment)

AllStraight(segments) == \A i \in 1..Len(segments) : Straight(segments[i])

\* The point is an end point of the segment or a lattice point between
\* them: on the line through them, and not beyond either.
Covers(segment, point) ==
    /\ (point[1] - segment.start[1]) * DeltaY(segment) = (point[2] - segment.start[2]) * DeltaX(segment)
    /\ (point[1] - segment.start[1]) * (point[1] - segment.end[1]) <= 0
    /\ (point[2] - segment.start[2]) * (point[2] - segment.end[2]) <= 0

EndPoints(segments) ==
    {segments[i].start[1] : i \in 1..Len(segments)} \cup {segments[i].start[2] : i \in 1..Len(segments)}
        \cup {segments[i].end[1] : i \in 1..Len(segments)} \cup {segments[i].end[2] : i \in 1..Len(segments)}

\* The number of points covered by two or more segments of the list.
\* The coordinates from the least to the greatest of the end points.
Span(segments) ==
    {v \in 0..10 : \E low, high \in EndPoints(segments) : low <= v /\ v <= high}

CoveredTwice(segments) ==
    Cardinality({point \in Span(segments) \X Span(segments) :
                    Cardinality({i \in 1..Len(segments) : Covers(segments[i], point)}) >= 2})

\* C23: a call of solve on a list of segments that are each horizontal,
\* vertical or at 45 degrees returns the number of points covered by two or
\* more of them: the first call on the segments that are not diagonal, the
\* second on all; on the example the two calls return 5 and 12.
C23_CoveredTwice ==
    prog = "day05" =>
        /\ (Len(results05) >= 1 /\ AllStraight(NotDiagonal(segments05))) =>
              results05[1] = CoveredTwice(NotDiagonal(segments05))
        /\ (Len(results05) = 2 /\ AllStraight(segments05)) =>
              results05[2] = CoveredTwice(segments05)
        /\ (Len(results05) = 2 /\ segments05 = ExampleSegments05) => results05 = <<5, 12>>

\* Both calls have returned on two segments, one of them at 45 degrees,
\* that cross in a point which is an end point of neither: the first call
\* was given the horizontal one alone.
C23_Witness ==
    /\ prog = "day05"
    /\ pc05 = "done"
    /\ segments05 = <<Seg(0, 0, 2, 2), Seg(2, 1, 0, 1)>>
    /\ results05 = <<0, 1>>

\* The walk has made `walked05` steps of (dx, dy) from the start point.
InStep ==
    /\ x05 = cur05.start[1] + walked05 * Direction(cur05.start[1], cur05.end[1])
    /\ y05 = cur05.start[2] + walked05 * Direction(cur05.start[2], cur05.end[2])

AtEnd == x05 = cur05.end[1] /\ y05 = cur05.end[2]

\* C30: the walk of a segment ends if and only if the segment is
\* horizontal, vertical or at 45 degrees: the walk of such a segment comes
\* to its end, the walk of any other keeps x and y in step and is never at
\* the end point, so that the call it belongs to never returns.  diagonal
\* is true of the segments at 45 degrees only, and the first call of solve
\* is given every other segment, the otherwise slanted ones among them.
C30_WalkEnds ==
    /\ [](prog = "day05_walk" =>
            /\ pc05 = "walk" => InStep
            /\ (pc05 = "walk" /\ ~Straight(cur05)) => ~AtEnd
            /\ pc05 # "walk" => Straight(cur05)
            /\ ~AllStraight(segments05) => results05 = <<>>
            /\ \A i \in 1..Len(segments05) : diagonal(segments05[i]) <=> At45(segments05[i]))
    /\ (prog = "day05_walk" /\ pc05 = "walk" /\ Straight(cur05)) ~> (pc05 = "next")
    /\ [][(prog = "day05_walk" /\ pc05 = "call" /\ part05 = "one" /\ pc05' = "next") =>
              todo05' = SelectSeq(segments05, LAMBDA segment : ~At45(segment))]_vars

\* The first call has walked a horizontal segment to its end and is now
\* walking a slanted one that is not at 45 degrees, MaxWalk05 steps from its start and below 0 in y.
C30_Witness ==
    /\ prog = "day05_walk"
    /\ segments05 = <<Seg(0, 1, 2, 1), Seg(1, 2, 0, 0)>>
    /\ part05 = "one"
    /\ pc05 = "walk"
    /\ cur05 = Seg(1, 2, 0, 0)
    /\ walked05 = MaxWalk05
    /\ y05 < 0
    /\ <<2, 1>> \in DOMAIN acc05
    /\ results05 = <<>>

-----------------------------------------------------------------------------
(* day13: main up to the end of the for loop *)

Dot(x, y) == [x |-> Num(0, x), y |-> Num(0, y)]

\* tests::text_example, lines 137-159.
ExamplePoints13 ==
    { Dot(6, 10), Dot(0, 14), Dot(9, 10), Dot(0, 3), Dot(10, 4), Dot(4, 11), Dot(6, 0), Dot(6, 12),
      Dot(4, 1), Dot(0, 13), Dot(10, 12), Dot(3, 4), Dot(3, 0), Dot(8, 4), Dot(1, 10), Dot(2, 14),
      Dot(8, 10), Dot(9, 0) }

ExampleFolds13 == <<[axis |-> "Y", at |-> Num(0, 7)], [axis |-> "X", at |-> Num(0, 5)]>>

\* 0, 1, 2, 2^31 and 2^31 + 1.
Values13 == {Num(0, 0), Num(0, 1), Num(0, 2), Num(1, 0), Num(1, 1)}

Points13 == [x : Values13, y : Values13]

PointSets13 == UNION {{{t[i] : i \in 1..n} : t \in [1..n -> Points13]} : n \in 0..MaxPoints13}

Folds13 == [axis : {"X", "Y"}, at : Values13]

\* No fold, one fold, or two folds at the same position.
FoldLists13 ==
    {<<>>} \cup {<<f>> : f \in Folds13}
           \cup {pair \in Folds13 \X Folds13 : pair[1].at = pair[2].at}

Unchanged13 ==
    UNCHANGED <<prog, overflow_checks, vars09, vars11nb, vars11, vars15, vars15e, vars12,
                varsMain, vars04, vars10, vars11ref, vars08, vars06, vars05>>

\* main, line 107: the input is parsed.
Init13 ==
    /\ prog = "day13"
    /\ overflow_checks \in BOOLEAN
    /\ Idle09
    /\ Idle11Nb
    /\ Idle11
    /\ Idle15
    /\ IdleSecond
    /\ Idle11Ref
    /\ Idle08
    /\ Idle06
    /\ Idle05
    /\ \/ points13 \in PointSets13 /\ folds13 \in FoldLists13
       \/ points13 = ExamplePoints13 /\ folds13 = ExampleFolds13
    /\ sheet13 = {}
    /\ folded13 = 0
    /\ first13 = 0
    /\ pc13 = "parsed"

\* main, line 108: fold(points.clone(), folds[0]).len() is printed.
FirstFold ==
    /\ pc13 = "parsed"
    /\ IF folds13 = <<>> \/ fold(points13, folds13[1]).panic
       THEN pc13' = "panicked" /\ first13' = first13
       ELSE pc13' = "folding" /\ first13' = Cardinality(fold(points13, folds13[1]).dots)
    /\ UNCHANGED <<points13, folds13, sheet13, folded13>>
    /\ Unchanged13

\* main, lines 110-112: one iteration of the for loop.
NextFold ==
    /\ pc13 = "folding"
    /\ folded13 < Len(folds13)
    /\ sheet13' = points13
    /\ folded13' = folded13 + 1
    /\ IF fold(points13, folds13[folded13 + 1]).panic
       THEN pc13' = "panicked" /\ points13' = points13
       ELSE pc13' = pc13 /\ points13' = fold(points13, folds13[folded13 + 1]).dots
    /\ UNCHANGED <<folds13, first13>>
    /\ Unchanged13

\* The for loop is over.
FoldsOver ==
    /\ pc13 = "folding"
    /\ folded13 = Len(folds13)
    /\ pc13' = "folded"
    /\ UNCHANGED <<points13, folds13, sheet13, folded13, first13>>
    /\ Unchanged13

Next13 ==
    \/ FirstFold
    \/ NextFold
    \/ FoldsOver

Spec13 == Init13 /\ [][Next13]_vars

-----------------------------------------------------------------------------
(* What the claim about the folds speaks of *)

\* The latest call of fold: its fold line, and the points it was given.
LatestFold == folds13[IF folded13 = 0 THEN 1 ELSE folded13]
GivenPoints == IF folded13 = 0 THEN points13 ELSE sheet13

Along(p, f) == IF f.axis = "X" THEN p.x ELSE p.y

\* Every folded coordinate is at most twice the line position.
AtMostTwice(dots, f) == \A p \in dots : ~Below(Twice(f.at), Along(p, f))

\* x -> x if x < fx else 2*fx - x, y unchanged, and the same for Fold::Y.
ImageOf(p, f) ==
    IF Below(Along(p, f), f.at) THEN p
    ELSE IF f.axis = "X" THEN [x |-> Minus(Twice(f.at), p.x), y |-> p.y]
    ELSE [x |-> p.x, y |-> Minus(Twice(f.at), p.y)]

Images(dots, f) == {ImageOf(p, f) : p \in dots}

Called13 == prog = "day13" /\ pc13 # "parsed" /\ folds13 # <<>>

AsClaimed13 ==
    /\ pc13 # "panicked"
    /\ folded13 = 0 => first13 = Cardinality(Images(points13, LatestFold))
    /\ folded13 >= 1 =>
          /\ points13 = Images(sheet13, LatestFold)
          /\ \A p \in points13 : ~Below(LatestFold.at, Along(p, LatestFold))
          /\ Cardinality(points13) <= Cardinality(sheet13)
          /\ fold(points13, LatestFold) = [panic |-> FALSE, dots |-> points13]

\* C24: a call of fold on points whose folded coordinates are all at most
\* twice the line position returns the set of their images under
\* x -> x if x < fx else 2*fx - x (and the same in y): no point of it lies
\* beyond the line, it has no more points than were given, and folding it
\* again along the same line returns it unchanged.
C24_FoldImages == (Called13 /\ AtMostTwice(GivenPoints, LatestFold)) => AsClaimed13

\* The same of the calls whose line lies below 2^31, where 2 * fx is a u32.
FoldBelowHalf ==
    (Called13 /\ AtMostTwice(GivenPoints, LatestFold) /\ IsU32(Twice(LatestFold.at))) => AsClaimed13

-----------------------------------------------------------------------------
(* day11: the grids the runs start from *)

\* A 10 x 10 grid: `hot` on the seed cells, `warm` on the cells next to a
\* seed cell, `bg` everywhere else.
MakeGrid(seeds, hot, warm, bg) ==
    [x \in 0..9 |-> [y \in 0..9 |->
        IF <<x, y>> \in seeds THEN hot
        ELSE IF \E c \in seeds : <<x, y>> \in SeqToSet(Neighborhood11(c[1], c[2]).data) THEN warm
        ELSE bg]]

\* The example of tests::text_example, energy[x][y] = digit x of line y.
ExampleLines11 ==
    << <<5,4,8,3,1,4,3,2,2,3>>, <<2,7,4,5,8,5,4,7,1,1>>, <<5,2,6,4,5,5,6,1,7,3>>,
       <<6,1,4,1,3,3,6,1,4,6>>, <<6,3,5,7,3,8,5,4,7,8>>, <<4,1,6,7,5,2,4,6,4,5>>,
       <<2,1,7,6,8,4,1,7,2,1>>, <<6,8,8,2,8,8,1,1,3,4>>, <<4,8,4,6,8,4,8,5,5,4>>,
       <<5,2,8,3,7,5,1,5,2,6>> >>

ExampleGrid11 == [x \in 0..9 |-> [y \in 0..9 |-> ExampleLines11[y + 1][x + 1]]]

Seeds11 == { {<<0, 0>>}, {<<0, 4>>}, {<<4, 4>>}, {<<4, 4>>, <<4, 5>>}, {<<9, 9>>, <<8, 7>>} }

Grids11 ==
    {MakeGrid(s, 9, w, b) : s \in Seeds11, w \in {5, 8, 9}, b \in {0, 7, 8, 9}}
        \cup {ExampleGrid11}

\* Grids whose waves stay small: a low background never charges.
GridsFewCharged11 ==
    {MakeGrid(s, 9, w, b) : s \in Seeds11, w \in {5, 8, 9}, b \in {0, 3}}

-----------------------------------------------------------------------------
(* day11: a run of solve_part_one or solve_part_two, one flash at a time *)

Run11(grids, solvers) ==
    /\ overflow_checks \in BOOLEAN
    /\ Idle09
    /\ Idle11Nb
    /\ Idle15
    /\ energy \in grids
    /\ start11 = energy
    /\ solver \in solvers
    /\ num_steps \in (IF solver = "part_one" THEN 0..MaxSteps11 ELSE {0})
    /\ pc11 = "call"
    /\ flashes = 0
    /\ charged = <<>>
    /\ total = 0
    /\ step = 1
    /\ returns = <<>>
    /\ fired = {}
    /\ swapped = FALSE

InitRun11(grids, solvers) == prog = "day11" /\ IdleRest /\ Run11(grids, solvers)

\* step() is entered (lines 113-119). solve_part_one calls it num_steps
\* times; solve_part_two's loop is followed for MaxSteps11 calls.
StepEnter ==
    /\ pc11 = "call"
    /\ IF solver = "part_one" THEN Len(returns) < num_steps ELSE Len(returns) < MaxSteps11
    /\ flashes' = 0
    /\ energy' = IncrementAll(energy)
    /\ fired' = {}
    /\ pc11' = "charged"
    /\ UNCHANGED <<prog, overflow_checks, vars09, vars11nb, vars15, varsRest, solver, num_steps, charged,
                   total, step, returns, swapped, start11>>

\* Line 121, charged() is Some(list): the for loop starts.
ChargedSome ==
    /\ pc11 = "charged"
    /\ Charged(energy) # <<>>
    /\ charged' = Charged(energy)
    /\ pc11' = "flash"
    /\ UNCHANGED <<prog, overflow_checks, vars09, vars11nb, vars15, varsRest, energy, solver, num_steps,
                   flashes, total, step, returns, fired, swapped, start11>>

\* Lines 122-131, one round of the for loop, on entry i of what is left of
\* the list (the code takes the first).
Flash(i) ==
    /\ pc11 = "flash"
    /\ i \in 1..Len(charged)
    /\ flashes' = flashes + 1
    /\ energy' = FlashCell(energy, charged[i])
    /\ fired' = fired \cup {charged[i]}
    /\ swapped' = (swapped \/ \E k \in 1..(i - 1) : charged[k] \in SeqToSet(Neighborhood11(charged[i][1], charged[i][2]).data))
    /\ charged' = SubSeq(charged, 1, i - 1) \o SubSeq(charged, i + 1, Len(charged))
    /\ pc11' = IF Len(charged) = 1 THEN "charged" ELSE "flash"
    /\ UNCHANGED <<prog, overflow_checks, vars09, vars11nb, vars15, varsRest, solver, num_steps,
                   total, step, returns, start11>>

FlashFirst == Flash(1)

\* Line 121, charged() is None: step returns flashes (line 134).
StepReturn ==
    /\ pc11 = "charged"
    /\ Charged(energy) = <<>>
    /\ returns' = Append(returns, flashes)
    /\ pc11' = "returned"
    /\ UNCHANGED <<prog, overflow_checks, vars09, vars11nb, vars15, varsRest, energy, solver, num_steps,
                   flashes, charged, total, step, fired, swapped, start11>>

\* solve_part_one, line 138: the returned count is added to the sum.
PartOneSum ==
    /\ pc11 = "returned"
    /\ solver = "part_one"
    /\ total' = total + flashes
    /\ pc11' = "call"
    /\ UNCHANGED <<prog, overflow_checks, vars09, vars11nb, vars15, varsRest, energy, solver, num_steps,
                   flashes, charged, step, returns, fired, swapped, start11>>

\* solve_part_one, line 138: the range is exhausted and the sum is returned.
PartOneReturn ==
    /\ pc11 = "call"
    /\ solver = "part_one"
    /\ Len(returns) = num_steps
    /\ pc11' = "done"
    /\ UNCHANGED <<prog, overflow_checks, vars09, vars11nb, vars15, varsRest, energy, solver, num_steps,
                   flashes, charged, total, step, returns, fired, swapped, start11>>

PartTwoAgain_noincrement ==
    /\ pc11 = "returned"
    /\ solver = "part_two"
    /\ flashes # 100
    /\ pc11' = "call"
    /\ UNCHANGED <<prog, overflow_checks, vars09, vars11nb, vars15, varsRest, energy, solver, num_steps,
                   flashes, charged, total, step, returns, fired, swapped, start11>>

\* solve_part_two, lines 144-146: step() != 100, the counter is incremented.
PartTwoAgain ==
    /\ pc11 = "returned"
    /\ solver = "part_two"
    /\ flashes # 100
    /\ step' = step + 1
    /\ pc11' = "call"
    /\ UNCHANGED <<prog, overflow_checks, vars09, vars11nb, vars15, varsRest, energy, solver, num_steps,
                   flashes, charged, total, returns, fired, swapped, start11>>

\* solve_part_two, lines 144-148: step() = 100, `step` is returned.
PartTwoReturn ==
    /\ pc11 = "returned"
    /\ solver = "part_two"
    /\ flashes = 100
    /\ pc11' = "done"
    /\ UNCHANGED <<prog, overflow_checks, vars09, vars11nb, vars15, varsRest, energy, solver, num_steps,
                   flashes, charged, total, step, returns, fired, swapped, start11>>

Init11 == InitRun11(Grids11, {"part_one", "part_two"})

Next11 ==
    \/ StepEnter
    \/ ChargedSome
    \/ FlashFirst
    \/ StepReturn
    \/ PartOneSum
    \/ PartOneReturn
    \/ PartTwoAgain
    \/ PartTwoReturn

Spec11 == Init11 /\ [][Next11]_vars

\* The same run of solve_part_one with the charged cells of a wave taken in
\* any order.
FlashAny == \E i \in 1..Len(charged) : Flash(i)

InitAnyOrder == InitRun11(GridsFewCharged11, {"part_one"})

NextAnyOrder ==
    \/ StepEnter
    \/ ChargedSome
    \/ FlashAny
    \/ StepReturn
    \/ PartOneSum
    \/ PartOneReturn

SpecAnyOrder == InitAnyOrder /\ [][NextAnyOrder]_vars

-----------------------------------------------------------------------------
(* day11: each call of step, after the cascade with a fired set has been *)
(* run on the same grid                                                   *)

\* The cells of the grid next to c, diagonals included.
InBoundsNeighbours(c) ==
    {d \in (0..9) \X (0..9) :
        /\ d # c
        /\ d[1] - c[1] \in -1..1
        /\ d[2] - c[2] \in -1..1}

CellNumber(c) == 10 * c[1] + c[2]

\* The cells the cascade may take next: unfired and above 9.
Eligible == {c \in ((0..9) \X (0..9)) \ ref_fired : ref_energy[c[1]][c[2]] > 9}

\* The cell is reset, and every neighbour not yet fired is incremented; c
\* counts as fired from here on.
RefFlashCell(e, fd, c) ==
    [x \in 0..9 |-> [y \in 0..9 |->
        IF <<x, y>> = c THEN 0
        ELSE IF <<x, y>> \in InBoundsNeighbours(c) \ fd THEN e[x][y] + 1
        ELSE e[x][y]]]

\* A ring of cells at 9 around a cell at 8, and two cells at 9 further off.
RingGrid11 ==
    [x \in 0..9 |-> [y \in 0..9 |->
        IF <<x, y>> = <<4, 4>> THEN 8
        ELSE IF <<x, y>> \in InBoundsNeighbours(<<4, 4>>) \cup {<<8, 8>>, <<0, 9>>} THEN 9
        ELSE 2]]

\* Grids of which few cells flash: the cascade is run on them in any order.
GridsAnyOrder11 ==
    {MakeGrid(s, 9, w, b) : s \in {{<<0, 0>>}, {<<0, 4>>}, {<<4, 4>>}}, w \in {5, 8, 9}, b \in {0, 3}}

GridsCascade11 == Grids11 \cup {RingGrid11}

UnchangedCascade ==
    UNCHANGED <<prog, overflow_checks, vars09, vars11nb, vars11, vars15, vars15e, vars12,
                varsMain, vars04, vars10, vars08, vars06, vars05, vars13>>

InitCascade ==
    /\ prog = "day11_cascade"
    /\ IdleSecond
    /\ Idle08
    /\ Idle06
    /\ Idle05
    /\ Idle13
    /\ Run11(GridsCascade11, {"part_one"})
    /\ num_steps = MaxStepsCascade
    /\ ref_order \in (IF energy \in GridsAnyOrder11 THEN {"lowest", "highest", "any"}
                                                   ELSE {"lowest", "highest"})
    /\ ref_before = <<>>
    /\ ref_energy = <<>>
    /\ ref_fired = {}
    /\ ref_steps = 0
    /\ pcRef = "idle"

\* The cascade begins on the grid the next call of step will get:
\* increment all.
RefEnter ==
    /\ prog = "day11_cascade"
    /\ pc11 = "call"
    /\ ref_steps = Len(returns)
    /\ ref_steps < num_steps
    /\ ref_before' = energy
    /\ ref_energy' = [x \in 0..9 |-> [y \in 0..9 |-> energy[x][y] + 1]]
    /\ ref_fired' = {}
    /\ ref_steps' = ref_steps + 1
    /\ pcRef' = "cascade"
    /\ UNCHANGED ref_order
    /\ UnchangedCascade

\* While some unfired cell exceeds 9: one such cell is reset, marked fired,
\* and its neighbours not yet fired are incremented.
RefFlash ==
    /\ prog = "day11_cascade"
    /\ pcRef = "cascade"
    /\ \E c \in Eligible :
          /\ ref_order = "lowest" => \A d \in Eligible : CellNumber(c) <= CellNumber(d)
          /\ ref_order = "highest" => \A d \in Eligible : CellNumber(c) >= CellNumber(d)
          /\ ref_energy' = RefFlashCell(ref_energy, ref_fired, c)
          /\ ref_fired' = ref_fired \cup {c}
    /\ UNCHANGED <<ref_order, ref_before, ref_steps, pcRef>>
    /\ UnchangedCascade

\* No unfired cell exceeds 9: the cascade is over.
RefDone ==
    /\ prog = "day11_cascade"
    /\ pcRef = "cascade"
    /\ Eligible = {}
    /\ pcRef' = "done"
    /\ UNCHANGED <<ref_order, ref_before, ref_energy, ref_fired, ref_steps>>
    /\ UnchangedCascade

\* step() is called on the grid the cascade began on.
CascadeStepEnter ==
    /\ prog = "day11_cascade"
    /\ pcRef = "done"
    /\ ref_steps = Len(returns) + 1
    /\ StepEnter

NextCascade ==
    \/ RefEnter
    \/ RefFlash
    \/ RefDone
    \/ CascadeStepEnter
    \/ ChargedSome
    \/ FlashFirst
    \/ StepReturn
    \/ PartOneSum
    \/ PartOneReturn

SpecCascade == InitCascade /\ [][NextCascade]_vars

-----------------------------------------------------------------------------
(* What the claims about the cascade speak of *)

Neighbours11(c) == SeqToSet(Neighborhood11(c[1], c[2]).data)

\* C6: in one call of step no cell flashes twice: `flashes` is the number
\* of distinct cells reset to 0 in this call, each of them still holds 0 (it
\* was never incremented again), and none of them is in the charged() list
\* the loop is walking.
C6_NoRefire ==
    prog = "day11" =>
        /\ flashes = Cardinality(fired)
        /\ \A c \in fired : energy[c[1]][c[2]] = 0
        /\ \A i \in 1..Len(charged) : charged[i] \notin fired

\* C6's case: two adjacent cells have flashed in one call of step, in two
\* waves of it (one started at 9, the other below), so the later one's flash
\* found the earlier one at 0; and the call went on to a further flash.
C6_Witness ==
    /\ prog = "day11"
    /\ pc11 = "returned"
    /\ Len(returns) = 1
    /\ \E c, d \in fired :
          /\ c \in Neighbours11(d)
          /\ start11[c[1]][c[2]] = 9
          /\ start11[d[1]][d[2]] < 9

\* C7: the flash total of solve_part_one(n) and the grid it leaves are a
\* function of the starting grid and n: whatever order the charged cells of
\* each wave are taken in, after every call of step the grid and the sum are
\* those of the code's own order, and so is the total returned.
C7_OrderFree ==
    /\ (prog = "day11" /\ pc11 = "returned") =>
          /\ energy = PartOneOf(start11, Len(returns)).energy
          /\ total + flashes = PartOneOf(start11, Len(returns)).total
    /\ (prog = "day11" /\ pc11 = "done" /\ solver = "part_one") =>
          /\ energy = PartOneOf(start11, num_steps).energy
          /\ total = PartOneOf(start11, num_steps).total

\* C7's case: solve_part_one has returned a total after at least two calls
\* of step in which some charged cell was taken before an adjacent cell
\* that precedes it in the list.
C7_Witness ==
    /\ prog = "day11"
    /\ pc11 = "done"
    /\ solver = "part_one"
    /\ num_steps >= 2
    /\ swapped
    /\ total > 0

\* C8: solve_part_two returns the number k of the first call of step that
\* returns 100: call k returned 100, every earlier call less, and after it
\* every cell holds 0.
C8_FirstFullFlash ==
    (prog = "day11" /\ pc11 = "done" /\ solver = "part_two") =>
        /\ step = Len(returns)
        /\ returns[step] = 100
        /\ \A j \in 1..(step - 1) : returns[j] < 100
        /\ \A x \in 0..9, y \in 0..9 : energy[x][y] = 0

\* C8's case: solve_part_two has returned after more than one call of
\* step, an earlier one of which saw flashes.
C8_Witness ==
    /\ prog = "day11"
    /\ pc11 = "done"
    /\ solver = "part_two"
    /\ step > 1
    /\ \E j \in 1..(step - 1) : returns[j] > 0

StepReturned == prog = "day11_cascade" /\ pc11 = "returned"

\* C27: whenever step returns, the grid it leaves is the grid the cascade
\* with a fired set left of the same grid, the cells it reset are the cells
\* the cascade marked fired, and the count it returns is their number.
C27_SameAsFiredSet ==
    StepReturned =>
        /\ energy = ref_energy
        /\ fired = ref_fired
        /\ flashes = Cardinality(ref_fired)

\* step has returned from a call in which a cell flashed next to a cell
\* that had flashed before it in the cascade and before it in step too.
C27_Witness ==
    /\ StepReturned
    /\ flashes >= 4
    /\ ref_order = "highest"
    /\ \E c \in ref_fired : ref_before[c[1]][c[2]] < 9

Holding0 == {c \in (0..9) \X (0..9) : energy[c[1]][c[2]] = 0}

\* C29: whenever step returns, every cell is in 0..9, the count returned is
\* the number of cells holding 0, and every cell that did not flash holds
\* what it held before the call plus 1 plus the number of its neighbours that
\* flashed; and at no time during the call does a cell hold more than 18.
C29_StepBounds ==
    /\ prog = "day11_cascade" => \A x \in 0..9, y \in 0..9 : energy[x][y] <= 18
    /\ StepReturned =>
          /\ \A x \in 0..9, y \in 0..9 : energy[x][y] \in 0..9
          /\ flashes = Cardinality(Holding0)
          /\ fired = Holding0
          /\ \A c \in ((0..9) \X (0..9)) \ fired :
                energy[c[1]][c[2]] =
                    ref_before[c[1]][c[2]] + 1 + Cardinality(InBoundsNeighbours(c) \cap fired)

\* step has returned from a call that began with a cell at 0, in which
\* cells flashed and a cell next to three or more of them did not.
C29_Witness ==
    /\ StepReturned
    /\ \E c \in (0..9) \X (0..9) : ref_before[c[1]][c[2]] = 0
    /\ \E c \in ((0..9) \X (0..9)) \ fired :
          /\ Cardinality(InBoundsNeighbours(c) \cap fired) >= 3
          /\ energy[c[1]][c[2]] >= 4

-----------------------------------------------------------------------------
(* day15: solve, called on every small grid *)

Init15 ==
    /\ prog = "day15"
    /\ overflow_checks \in BOOLEAN
    /\ Idle09
    /\ Idle11Nb
    /\ Idle11
    /\ IdleRest
    /\ M \in 1..MaxM15
    /\ N \in 1..MaxN15
    /\ grid \in [0..(M - 1) -> [0..(N - 1) -> Risks15]]
    /\ pc15 = "loaded"
    /\ dist = <<>>
    /\ answer = 0

Solve ==
    /\ prog = "day15"
    /\ pc15 = "loaded"
    /\ dist' = distance_matrix(grid, M, N)
    /\ answer' = solve(grid, M, N)
    /\ pc15' = "solved"
    /\ UNCHANGED <<prog, overflow_checks, vars09, vars11nb, vars11, varsRest, M, N, grid>>

Next15 == Solve

Spec15 == Init15 /\ [][Next15]_vars

-----------------------------------------------------------------------------
(* What the claims about the risk grid speak of *)

\* The monotone paths from (0, 0) to (M - 1, N - 1): M + N - 2 moves, each
\* one step down ("D") or one step right ("R"), M - 1 of them down.
MonotonePaths ==
    {p \in [1..(M + N - 2) -> {"D", "R"}] :
        Cardinality({i \in 1..(M + N - 2) : p[i] = "D"}) = M - 1}

\* The sum of the cells path p enters from its move i on, standing at (row, col).
RECURSIVE EnteredFrom(_, _, _, _)
EnteredFrom(p, i, row, col) ==
    IF i > M + N - 2 THEN 0
    ELSE LET r == IF p[i] = "D" THEN row + 1 ELSE row
             c == IF p[i] = "R" THEN col + 1 ELSE col
         IN  grid[r][c] + EnteredFrom(p, i + 1, r, c)

\* The cost of path p: the cells on it, the origin left out.
PathCost(p) == EnteredFrom(p, 1, 0, 0)

MinPathCost == CHOOSE v \in {PathCost(p) : p \in MonotonePaths} :
                   \A p \in MonotonePaths : v <= PathCost(p)

Solved15 == prog = "day15" /\ pc15 = "solved"

\* C9: solve(map) is the least cost of a monotone path from (0, 0) to
\* (M - 1, N - 1), the origin's value left out; and every entry of the
\* distance matrix is the cell's value plus the lesser of the entries above
\* and to the left (the one that exists on the first row and column), the
\* entry (0, 0) being grid[0][0].
C9_MinMonotonePath ==
    Solved15 =>
        /\ answer = MinPathCost
        /\ \A r \in 0..(M - 1), c \in 0..(N - 1) :
              dist[r][c] = grid[r][c] +
                  (IF r = 0 /\ c = 0 THEN 0
                   ELSE IF r = 0 THEN dist[r][c - 1]
                   ELSE IF c = 0 THEN dist[r - 1][c]
                   ELSE Min(dist[r - 1][c], dist[r][c - 1]))

\* Whether path p turns once at most: all its moves down come first, or all
\* its moves right.
OneTurn(p) ==
    \/ \A i \in 1..(M + N - 3) : p[i] = "R" => p[i + 1] = "R"
    \/ \A i \in 1..(M + N - 3) : p[i] = "D" => p[i + 1] = "D"

\* C9's case: solve has returned for a grid on which every path along the
\* grid's edges costs more than the best path.
C9_Witness ==
    /\ Solved15
    /\ M >= 2
    /\ N >= 2
    /\ \A p \in MonotonePaths : OneTurn(p) => answer < PathCost(p)

OnesGrid2x2 == M = 2 /\ N = 2 /\ \A r \in 0..1, c \in 0..1 : grid[r][c] = 1

\* C10 as the spec states it: for the grid [[1,1],[1,1]] solve returns 3.
C10_Original == (Solved15 /\ OnesGrid2x2) => answer = 3

\* C10, amended: for the grid [[1,1],[1,1]] solve returns 2, the path's sum 3
\* less the origin's own value 1.
C10_Amended == (Solved15 /\ OnesGrid2x2) => answer = 2

\* C10's case: solve has returned for the grid [[1,1],[1,1]].
C10_Witness == Solved15 /\ OnesGrid2x2

-----------------------------------------------------------------------------
(* day15: enlarge, called on every small map with risks in 1..9 *)

InitEnlarge ==
    /\ prog = "day15_enlarge"
    /\ overflow_checks = TRUE
    /\ Idle09
    /\ Idle11Nb
    /\ Idle11
    /\ IdleLate
    /\ M \in 1..MaxEnlargeM
    /\ N \in 1..MaxEnlargeN
    /\ grid \in [0..(M - 1) -> [0..(N - 1) -> RisksEnlarge]]
    /\ pc15 = "loaded"
    /\ dist = <<>>
    /\ answer = 0
    /\ enlarged = <<>>
    /\ Idle12
    /\ IdleMain
    /\ Idle04
    /\ Idle10

Enlarge ==
    /\ prog = "day15_enlarge"
    /\ pc15 = "loaded"
    /\ enlarged' = enlarge(grid, M, N)
    /\ pc15' = "enlarged"
    /\ UNCHANGED <<prog, overflow_checks, varsLate, vars09, vars11nb, vars11, vars12, varsMain, vars04, vars10, M, N, grid, dist, answer>>

NextEnlarge == Enlarge

SpecEnlarge == InitEnlarge /\ [][NextEnlarge]_vars

\* C11: the map returned by enlarge is 5M x 5N and holds, at row r and
\* column c of the tile at tile offsets (i, j), the original value raised by
\* i + j and wrapped from 9 back to 1, never to 0; so the top-left tile is
\* the original and every value is in 1..9.
C11_Enlarge ==
    (prog = "day15_enlarge" /\ pc15 = "enlarged") =>
        /\ DOMAIN enlarged = 0..(5 * M - 1)
        /\ \A row \in DOMAIN enlarged : DOMAIN enlarged[row] = 0..(5 * N - 1)
        /\ \A i \in 0..4, j \in 0..4, r \in 0..(M - 1), c \in 0..(N - 1) :
              /\ enlarged[i * M + r][j * N + c] = ((grid[r][c] + i + j - 1) % 9) + 1
              /\ enlarged[i * M + r][j * N + c] \in 1..9
        /\ \A r \in 0..(M - 1), c \in 0..(N - 1) : enlarged[r][c] = grid[r][c]

\* An enlarged 2 x 2 map in which a 9 of the original has wrapped to 1 in a
\* tile to the right and in a tile below, and a 5 has wrapped in a far tile.
C11_Witness ==
    /\ prog = "day15_enlarge"
    /\ pc15 = "enlarged"
    /\ M = 2
    /\ N = 2
    /\ grid[0][0] = 9
    /\ grid[1][1] = 5
    /\ enlarged[0][2] = 1
    /\ enlarged[2][0] = 1
    /\ enlarged[9][9] = 4

-----------------------------------------------------------------------------
(* day12: main, the two searches run one round of their while loop at a time *)

\* The lines the inputs are made of: the first example of the tests (lines
\* 248-254) and one line that joins two big caves.
Lines12 ==
    << <<"start", "A">>, <<"start", "b">>, <<"A", "c">>, <<"A", "b">>,
       <<"b", "d">>, <<"A", "end">>, <<"b", "end">>, <<"A", "B">> >>

\* The lines of Lines12 chosen by keep, in their order.
RECURSIVE Chosen(_, _)
Chosen(keep, k) ==
    IF k > Len(Lines12) THEN <<>>
    ELSE (IF k \in keep THEN <<Lines12[k]>> ELSE <<>>) \o Chosen(keep, k + 1)

\* Inputs in which a small cave is joined to itself.
SelfLoops12 ==
    { << <<"start", "b">>, <<"b", "b">>, <<"b", "end">> >>,
      << <<"start", "b">>, <<"b", "b">>, <<"b", "c">>, <<"c", "c">>, <<"c", "end">> >> }

\* An input is any choice of these lines, and possibly one of them again, or
\* one of the inputs with a small cave joined to itself.
Inputs12 ==
    LET chosen == {Chosen(keep, 1) : keep \in SUBSET (1..Len(Lines12))}
    IN  chosen \cup {lines \o <<lines[i]>> : <<lines, i>> \in
                        {li \in chosen \X (1..Len(Lines12)) : li[2] <= Len(li[1])}}
               \cup SelfLoops12

\* Graph::new (line 234).
Loaded12 ==
    /\ overflow_checks = TRUE
    /\ Idle09
    /\ Idle11Nb
    /\ Idle11
    /\ Idle15
    /\ Idle15e
    /\ IdleMain
    /\ Idle04
    /\ Idle10
    /\ IdleLate
    /\ input12 \in Inputs12
    /\ nodes = NewGraph(input12, 1, <<>>, <<>>).nodes
    /\ edges = NewGraph(input12, 1, <<>>, <<>>).edges
    /\ pc12 = "loaded"
    /\ candidates = EmptyBag
    /\ paths = EmptyBag
    /\ rounds = 0
    /\ count_once = 0
    /\ count_twice = 0

Init12 == prog = "day12" /\ Loaded12

Unchanged12 == UNCHANGED <<prog, overflow_checks, varsLate, vars09, vars11nb, vars11, vars15, vars15e, varsMain, vars04, vars10>>

\* main calls search_once (line 235); lines 125-126, or the unwrap of
\* Graph::start panics (line 107).
OnceCall ==
    /\ prog = "day12"
    /\ pc12 = "loaded"
    /\ IF HasStart
       THEN /\ candidates' = SetToBag({<<start>>})
            /\ pc12' = "once"
       ELSE /\ candidates' = candidates
            /\ pc12' = "panicked"
    /\ Unchanged12
    /\ UNCHANGED <<input12, nodes, edges, paths, rounds, count_once, count_twice>>

\* One iteration of the while loop of search_once, lines 128-163.
OnceRound ==
    /\ prog = "day12"
    /\ pc12 = "once"
    /\ candidates # EmptyBag
    /\ rounds < MaxRounds12
    /\ paths' = paths (+) Pushed(candidates, "end")
    /\ candidates' = Pushed(candidates, "once")
    /\ rounds' = rounds + 1
    /\ Unchanged12
    /\ UNCHANGED <<input12, nodes, edges, pc12, count_once, count_twice>>

\* search_once returns (line 165) and main calls search_twice (line 236,
\* lines 170-171).
OnceReturn ==
    /\ prog = "day12"
    /\ pc12 = "once"
    /\ candidates = EmptyBag
    /\ count_once' = BagCardinality(paths)
    /\ candidates' = SetToBag({<<start>>})
    /\ paths' = EmptyBag
    /\ rounds' = 0
    /\ pc12' = "twice"
    /\ Unchanged12
    /\ UNCHANGED <<input12, nodes, edges, count_twice>>

\* One iteration of the while loop of search_twice, lines 173-226.
TwiceRound ==
    /\ prog = "day12"
    /\ pc12 = "twice"
    /\ candidates # EmptyBag
    /\ rounds < MaxRounds12
    /\ paths' = paths (+) Pushed(candidates, "end")
    /\ candidates' = Pushed(candidates, "twice")
    /\ rounds' = rounds + 1
    /\ Unchanged12
    /\ UNCHANGED <<input12, nodes, edges, pc12, count_once, count_twice>>

\* search_twice returns (line 228).
TwiceReturn ==
    /\ prog = "day12"
    /\ pc12 = "twice"
    /\ candidates = EmptyBag
    /\ count_twice' = BagCardinality(paths)
    /\ pc12' = "done"
    /\ Unchanged12
    /\ UNCHANGED <<input12, nodes, edges, candidates, paths, rounds, count_once>>

Next12 ==
    \/ OnceCall
    \/ OnceRound
    \/ OnceReturn
    \/ TwiceRound
    \/ TwiceReturn

Spec12 == Init12 /\ [][Next12]_vars

-----------------------------------------------------------------------------
(* day12: the two searches with every candidate reduced to what the loops *)
(* read of it, so that a search that never ends is a cycle                 *)

\* The small caves of a path in the order of their indices, from index i on.
RECURSIVE SmallsFrom(_, _)
SmallsFrom(path, i) ==
    IF i >= Len(nodes) THEN <<>>
    ELSE (IF node(i).kind = "SmallCave"
          THEN [k \in 1..Cardinality({j \in 1..Len(path) : path[j] = i}) |-> i]
          ELSE <<>>) \o SmallsFrom(path, i + 1)

\* The loops read of a candidate its last node (lines 132, 177), whether it
\* contains a small cave (lines 147, 209) and how often it holds each small
\* cave (lines 191-205); a reduced candidate keeps that and nothing else:
\* the small caves before the last node, sorted, and the last node.
Reduce(path) == SmallsFrom(Front(path), 0) \o <<Last(path)>>

\* One iteration of the while loop on a reduced frontier: the candidates
\* pushed, reduced, each once.  is_empty (lines 128, 173) is all that is
\* read of the number of candidates.
ReducedRound(cands, arm) == SetToBag({Reduce(path) : path \in DOMAIN Pushed(cands, arm)})

InitFrontier == prog = "day12_frontier" /\ Loaded12

FrontierOnceCall ==
    /\ prog = "day12_frontier"
    /\ pc12 = "loaded"
    /\ IF HasStart
       THEN /\ candidates' = SetToBag({<<start>>})
            /\ pc12' = "once"
       ELSE /\ candidates' = candidates
            /\ pc12' = "panicked"
    /\ Unchanged12
    /\ UNCHANGED <<input12, nodes, edges, paths, rounds, count_once, count_twice>>

FrontierOnceRound ==
    /\ prog = "day12_frontier"
    /\ pc12 = "once"
    /\ candidates # EmptyBag
    /\ candidates' = ReducedRound(candidates, "once")
    /\ Unchanged12
    /\ UNCHANGED <<input12, nodes, edges, pc12, paths, rounds, count_once, count_twice>>

FrontierOnceReturn ==
    /\ prog = "day12_frontier"
    /\ pc12 = "once"
    /\ candidates = EmptyBag
    /\ candidates' = SetToBag({<<start>>})
    /\ pc12' = "twice"
    /\ Unchanged12
    /\ UNCHANGED <<input12, nodes, edges, paths, rounds, count_once, count_twice>>

FrontierTwiceRound ==
    /\ prog = "day12_frontier"
    /\ pc12 = "twice"
    /\ candidates # EmptyBag
    /\ candidates' = ReducedRound(candidates, "twice")
    /\ Unchanged12
    /\ UNCHANGED <<input12, nodes, edges, pc12, paths, rounds, count_once, count_twice>>

FrontierTwiceReturn ==
    /\ prog = "day12_frontier"
    /\ pc12 = "twice"
    /\ candidates = EmptyBag
    /\ pc12' = "done"
    /\ Unchanged12
    /\ UNCHANGED <<input12, nodes, edges, candidates, paths, rounds, count_once, count_twice>>

NextFrontier ==
    \/ FrontierOnceCall
    \/ FrontierOnceRound
    \/ FrontierOnceReturn
    \/ FrontierTwiceRound
    \/ FrontierTwiceReturn

\* The program is sequential and is never suspended: a step that can be
\* taken is taken.
Spec12Fair == InitFrontier /\ [][NextFrontier]_vars /\ WF_vars(NextFrontier)

\* The reduced searches are the searches of Spec12 seen through Reduce: in
\* every round of Spec12 the new frontier, reduced, is the reduced round of
\* the old frontier, reduced.
Reduced(cands) == SetToBag({Reduce(path) : path \in DOMAIN cands})

ReducedFrontier ==
    [][(pc12 \in {"once", "twice"} /\ pc12' = pc12) =>
          Reduced(candidates') = ReducedRound(Reduced(candidates), pc12)]_vars

-----------------------------------------------------------------------------
(* What the claims about the path counts speak of: node sequences, by name *)

Names12 == {input12[k][1] : k \in 1..Len(input12)} \cup {input12[k][2] : k \in 1..Len(input12)}

IsSmallCave(name) == name \notin ({"start", "end"} \cup UpperCase12)

\* Some line of the input joins the two nodes.
Joined(a, b) == \E k \in 1..Len(input12) : input12[k] = <<a, b>> \/ input12[k] = <<b, a>>

Occurrences(p, name) == Cardinality({i \in 1..Len(p) : p[i] = name})

\* Each small cave at most once.
OnceRule(p) == \A name \in Names12 : IsSmallCave(name) => Occurrences(p, name) <= 1

\* At most one small cave twice, every other small cave at most once.
TwiceRule(p) ==
    /\ \A name \in Names12 : IsSmallCave(name) => Occurrences(p, name) <= 2
    /\ Cardinality({name \in Names12 : IsSmallCave(name) /\ Occurrences(p, name) = 2}) <= 1

\* The node sequence p begins at start, follows lines of the input, never
\* returns to start, has not been at end before its last node, and obeys the
\* rule named.
Route(p, rule) ==
    /\ p[1] = "start"
    /\ \A i \in 2..Len(p) : p[i] # "start"
    /\ \A i \in 1..(Len(p) - 1) : p[i] # "end" /\ Joined(p[i], p[i + 1])
    /\ IF rule = "once" THEN OnceRule(p) ELSE TwiceRule(p)

\* All routes that extend a route of the set by any number of nodes; the set
\* is finite exactly where the search ends.
RECURSIVE RoutesFrom(_, _)
RoutesFrom(routes, rule) ==
    IF routes = {} THEN {}
    ELSE routes \cup RoutesFrom({q \in {Append(p, name) : p \in routes, name \in Names12} :
                                     Route(q, rule)}, rule)

\* The distinct node sequences of the claims: the routes that end at end.
CompleteRoutes(rule) == {p \in RoutesFrom({<<"start">>}, rule) : Last(p) = "end"}

OnceReturned == prog = "day12" /\ pc12 \in {"twice", "done"}
TwiceReturned == prog = "day12" /\ pc12 = "done"

\* C12: when search_once has returned, the number it returned is the number
\* of distinct node sequences from start to their first arrival at end that
\* follow the edges, never return to start and hold each small cave at most
\* once.
C12_OnceCount ==
    OnceReturned => count_once = Cardinality(CompleteRoutes("once"))

\* C13: when search_twice has returned, the number it returned is the number
\* of distinct node sequences from start to their first arrival at end that
\* follow the edges, never return to start and hold at most one small cave
\* twice and every other small cave at most once.
C13_TwiceCount ==
    TwiceReturned => count_twice = Cardinality(CompleteRoutes("twice"))

\* The graph with edges start-A, start-b, A-b, A-end, b-end.
FiveEdges12 == Chosen({1, 2, 4, 6, 7}, 1)

\* C14: when both searches have returned, search_twice has returned at
\* least what search_once returned, and strictly more on the graph with
\* edges start-A, start-b, A-b, A-end, b-end.
C14_TwiceAtLeastOnce ==
    TwiceReturned =>
        /\ count_twice >= count_once
        /\ input12 = FiveEdges12 => count_twice > count_once

\* Both searches have returned on that graph: 5 paths with b at most once,
\* 9 with b at most twice.
C14_Witness ==
    /\ TwiceReturned
    /\ input12 = FiveEdges12
    /\ count_once = 5
    /\ count_twice = 9

\* A candidate that holds two big caves next to each other.
AdjacentBigCaves(candidate) ==
    \E i \in 1..(Len(candidate) - 1) :
        node(candidate[i]).kind = "BigCave" /\ node(candidate[i + 1]).kind = "BigCave"

Endless == \E candidate \in DOMAIN candidates : AdjacentBigCaves(candidate)

\* MaxRounds12 stops no search that would end: only a search with such a
\* candidate in its frontier is still running after MaxRounds12 rounds ...
StoppedOnlyWhenEndless ==
    (pc12 \in {"once", "twice"} /\ rounds = MaxRounds12 /\ candidates # EmptyBag) => Endless

\* ... and a frontier with such a candidate is followed by another one: the
\* BigCave arm pushes without a condition (lines 153-157 and 216-220).
EndlessForEver == [][(pc12 = pc12' /\ Endless) => Endless']_vars

\* C25: while search_twice runs and when it has returned, no candidate and
\* no completed path holds a small cave three times or more, none holds
\* more than one small cave twice, and have_visited_twice is true of a
\* candidate exactly if the candidate holds some small cave more than once.
C25_TwiceInvariant ==
    (prog = "day12" /\ pc12 \in {"twice", "done"}) =>
        /\ \A path \in (DOMAIN candidates) \cup (DOMAIN paths) :
              /\ \A index \in SmallCaves12 : Visits(path, index) <= 2
              /\ Cardinality(RepeatedSmalls(path)) <= 1
        /\ \A candidate \in DOMAIN candidates :
              have_visited_twice(candidate) <=> RepeatedSmalls(candidate) # {}

\* search_twice holds a candidate that has been twice at a small cave joined
\* to itself, of which the test is true, and a candidate of two nodes or
\* more of which it is false.
C25_Witness ==
    /\ prog = "day12"
    /\ pc12 = "twice"
    /\ input12 \in SelfLoops12
    /\ \E candidate \in DOMAIN candidates :
          have_visited_twice(candidate) /\ RepeatedSmalls(candidate) # {}
    /\ \E candidate \in DOMAIN candidates :
          ~have_visited_twice(candidate) /\ Len(candidate) >= 2

\* C26: in both searches the start node is the first node of every
\* candidate and of every completed path and occurs nowhere else in them,
\* the end node is the last node of every completed path and occurs nowhere
\* else in it, and no candidate holds the end node.
C26_StartAndEnd ==
    (prog = "day12" /\ pc12 \in {"once", "twice", "done"}) =>
        /\ \A path \in (DOMAIN candidates) \cup (DOMAIN paths) :
              /\ path[1] = start
              /\ \A i \in 2..Len(path) : node(path[i]).kind # "Start"
        /\ \A path \in DOMAIN paths :
              /\ node(Last(path)).kind = "End"
              /\ \A i \in 1..(Len(path) - 1) : node(path[i]).kind # "End"
        /\ \A candidate \in DOMAIN candidates :
              \A i \in 1..Len(candidate) : node(candidate[i]).kind # "End"

\* A search holds candidates whose last node is joined to start and to end,
\* and completed paths, after two rounds or more.
C26_Witness ==
    /\ prog = "day12"
    /\ pc12 \in {"once", "twice"}
    /\ rounds >= 2
    /\ paths # EmptyBag
    /\ \E candidate \in DOMAIN candidates :
          /\ Times(Last(candidate), start) > 0
          /\ \E index \in 0..(Len(nodes) - 1) :
                node(index).kind = "End" /\ Times(Last(candidate), index) > 0

\* C15: every run on an input that holds a start node ends: both searches
\* find their frontier empty and return.
C15_Terminates ==
    (prog = "day12_frontier" /\ pc12 = "loaded" /\ HasStart) ~> (pc12 = "done")

-----------------------------------------------------------------------------
(* main of day09, day11 and day15 up to the `?` on the loader's result *)

\* The characters the input files are written with.
Chars == {"7", "x"}

\* Every line of at most MaxLineLen characters.
TextLines == UNION {[1..n -> Chars] : n \in 0..MaxLineLen}

\* Every file of at most MaxTextLines such lines.
Texts == UNION {[1..k -> TextLines] : k \in 0..MaxTextLines}

\* The example of day11 tests::text_example as the lines of a file.
ExampleText11 == [y \in 1..10 |-> [x \in 1..10 |-> Digits[ExampleLines11[y][x] + 1]]]

\* day11 reads ten lines of ten characters: the files are the example with
\* one character replaced, one line made longer or shorter, lines left out
\* at the end, or a line added.
Texts11 ==
    {ExampleText11}
        \cup {[ExampleText11 EXCEPT ![y][x] = "x"] : y \in 1..10, x \in 1..10}
        \cup {[ExampleText11 EXCEPT ![y] = Append(@, c)] : y \in 1..10, c \in Chars}
        \cup {[ExampleText11 EXCEPT ![y] = SubSeq(@, 1, 9)] : y \in 1..10}
        \cup {SubSeq(ExampleText11, 1, k) : k \in 0..9}
        \cup {Append(ExampleText11, line) : line \in TextLines \cup {ExampleText11[1]}}

InitMain ==
    /\ prog \in {"day09_main", "day11_main", "day15_main"}
    /\ overflow_checks = TRUE
    /\ Idle09
    /\ Idle11Nb
    /\ Idle11
    /\ Idle15
    /\ Idle15e
    /\ Idle12
    /\ Idle04
    /\ Idle10
    /\ IdleLate
    /\ text \in IF prog = "day11_main" THEN Texts11 ELSE Texts
    /\ loaded = NotLoaded
    /\ stdout = <<>>
    /\ pcMain = "start"

UnchangedMain ==
    UNCHANGED <<prog, overflow_checks, varsLate, vars09, vars11nb, vars11, vars15, vars15e, vars12, vars04, vars10>>

\* What `?` makes of the loader's result (lines 148, 154 and 109).
AfterLoad(returned) ==
    IF returned.result = "Ok" THEN "loaded"
    ELSE IF returned.result = "Err" THEN "failed"
    ELSE "panicked"

\* day09 main, lines 147-148.
Load09 ==
    /\ prog = "day09_main"
    /\ pcMain = "start"
    /\ loaded' = new09(text)
    /\ pcMain' = AfterLoad(new09(text))
    /\ UnchangedMain
    /\ UNCHANGED <<text, stdout>>

\* day11 main, lines 153-154.
Load11 ==
    /\ prog = "day11_main"
    /\ pcMain = "start"
    /\ loaded' = new11(text)
    /\ pcMain' = AfterLoad(new11(text))
    /\ UnchangedMain
    /\ UNCHANGED <<text, stdout>>

\* day15 main, lines 108-109, for a Map<LoadM15, LoadN15>.
Load15 ==
    /\ prog = "day15_main"
    /\ pcMain = "start"
    /\ loaded' = new15(text, LoadM15, LoadN15).returned
    /\ stdout' = stdout \o new15(text, LoadM15, LoadN15).printed
    /\ pcMain' = AfterLoad(new15(text, LoadM15, LoadN15).returned)
    /\ UnchangedMain
    /\ UNCHANGED text

NextMain ==
    \/ Load09
    \/ Load11
    \/ Load15

SpecMain == InitMain /\ [][NextMain]_vars

-----------------------------------------------------------------------------
(* What the claims about the loaders speak of *)

LoaderReturned == pcMain \in {"loaded", "failed", "panicked"}

\* Some line of the file holds a character that is not a decimal digit.
HasNonDigit == \E k \in 1..Len(text) : \E i \in 1..Len(text[k]) : ~IsDigit(text[k][i])

\* The width the program expects of a line, where it expects one: 0 = none.
ExpectedWidth ==
    IF prog = "day11_main" THEN 10
    ELSE IF prog = "day15_main" THEN LoadN15
    ELSE 0

\* The lines of the file do not all have the same length, or not the
\* expected one.
Ragged ==
    \/ \E j, k \in 1..Len(text) : Len(text[j]) # Len(text[k])
    \/ ExpectedWidth > 0 /\ \E k \in 1..Len(text) : Len(text[k]) # ExpectedWidth

\* C16: a loader called on a file in which some line holds a character that
\* is not a decimal digit, wherever it stands, returns Err(ParseError).
C16_NonDigitRejected ==
    (LoaderReturned /\ HasNonDigit) => loaded.result = "Err"

\* C17: a loader called on an empty file, or on a file whose lines do not
\* all have the same (or the expected) length, returns Err(ParseError): it
\* neither panics nor returns a grid.
C17_EmptyOrRaggedRejected ==
    (LoaderReturned /\ (Len(text) = 0 \/ Ragged)) => loaded.result = "Err"

\* C18: when the loader has failed and main has returned the failure,
\* nothing has been written to standard output.
C18_NothingPrinted ==
    pcMain = "failed" => stdout = <<>>

-----------------------------------------------------------------------------
(* day04: process_bingo, one drawn number at a time *)

MakeBoard(a, b, c, d) ==
    [row \in Index04 |-> [col \in Index04 |->
        Unmarked(IF row = 0 THEN (IF col = 0 THEN a ELSE b) ELSE (IF col = 0 THEN c ELSE d))]]

\* Boards of distinct numbers, boards that hold a number twice, and a board
\* that the numbers 1..3 never complete.
Boards04 ==
    { MakeBoard(1, 2, 3, 4), MakeBoard(2, 3, 1, 4), MakeBoard(1, 1, 2, 3),
      MakeBoard(3, 2, 2, 1), MakeBoard(4, 1, 2, 4) }

Numbers04 == {1, 2, 3}

\* Lines 119-137: the numbers and the boards have been read; split(',')
\* yields at least one number, and a file may hold no board.
Init04 ==
    /\ prog = "day04"
    /\ overflow_checks = TRUE
    /\ Idle09
    /\ Idle11Nb
    /\ Idle11
    /\ Idle15
    /\ Idle15e
    /\ Idle12
    /\ IdleMain
    /\ Idle10
    /\ IdleLate
    /\ input04 \in UNION {[1..n -> Numbers04] : n \in 1..MaxDraws04}
    /\ boards \in UNION {[1..n -> Boards04] : n \in 0..MaxBoards04}
    /\ boards0 = boards
    /\ drawn = 0
    /\ sums = <<>>
    /\ result04 = NoResult04
    /\ pc04 = "drawing"

Unchanged04 ==
    UNCHANGED <<prog, overflow_checks, varsLate, vars09, vars11nb, vars11, vars15, vars15e, vars12, varsMain, vars10>>

\* One iteration of `for number in input`, lines 141-149.
Draw ==
    /\ prog = "day04"
    /\ pc04 = "drawing"
    /\ drawn < Len(input04)
    /\ boards' = draw(boards, sums, input04[drawn + 1], 1).boards
    /\ sums' = draw(boards, sums, input04[drawn + 1], 1).sums
    /\ drawn' = drawn + 1
    /\ Unchanged04
    /\ UNCHANGED <<input04, boards0, result04, pc04>>

\* Line 151: sums[0] panics when no board has become complete.
Return04 ==
    /\ prog = "day04"
    /\ pc04 = "drawing"
    /\ drawn = Len(input04)
    /\ result04' = IF Len(sums) = 0 THEN [result |-> "panic", first |-> 0, last |-> 0]
                   ELSE [result |-> "Ok", first |-> sums[1], last |-> sums[Len(sums)]]
    /\ pc04' = "returned"
    /\ Unchanged04
    /\ UNCHANGED <<input04, boards, boards0, drawn, sums>>

Next04 ==
    \/ Draw
    \/ Return04

Spec04 == Init04 /\ [][Next04]_vars

-----------------------------------------------------------------------------
(* What the claim about the bingo scores speaks of, told from the boards as *)
(* read and the numbers drawn                                               *)

\* The numbers among the first k drawn.
DrawnUpTo(k) == {input04[i] : i \in 1..k}

\* After k numbers, board b as read has a row or a column of drawn numbers.
HasLine(b, k) ==
    \/ \E row \in Index04 : \A col \in Index04 : boards0[b][row][col].number \in DrawnUpTo(k)
    \/ \E col \in Index04 : \A row \in Index04 : boards0[b][row][col].number \in DrawnUpTo(k)

\* The draw at which board b becomes complete; 0 when it never does.
CompletedAt(b) ==
    IF \E k \in 1..Len(input04) : HasLine(b, k)
    THEN CHOOSE k \in 1..Len(input04) : HasLine(b, k) /\ \A j \in 1..(k - 1) : ~HasLine(b, j)
    ELSE 0

\* The number drawn at draw k times the sum of the entries of board b that
\* are still unmarked then.
ScoreAt(b, k) ==
    input04[k] * SumOver([cell \in Index04 \X Index04 |->
                             IF boards0[b][cell[1]][cell[2]].number \in DrawnUpTo(k) THEN 0
                             ELSE boards0[b][cell[1]][cell[2]].number],
                         Index04 \X Index04)

ScoreOf(b) == ScoreAt(b, CompletedAt(b))

\* For every board the draw at which it becomes complete.
Completions == [b \in 1..Len(boards0) |-> CompletedAt(b)]

\* The boards that have become complete by now, at being Completions.
CompletedBy(at) == {b \in DOMAIN at : at[b] > 0 /\ at[b] <= drawn}

\* The place of every completed board in the order of completion: a board
\* comes before another if it became complete at an earlier draw, or at the
\* same draw and stands before it.
Places(at, done) ==
    [b \in done |->
        Cardinality({a \in done : at[a] < at[b] \/ (at[a] = at[b] /\ a < b)}) + 1]

\* The scores so far are those of the completed boards in the order in which
\* they became complete, one each.
OneScoreEach(at, done, place) ==
    /\ Len(sums) = Cardinality(done)
    /\ \A b \in done : sums[place[b]] = ScoreAt(b, at[b])

\* A board is marked with the numbers drawn until it became complete and
\* with none drawn later.
NeverMarkedAgain(at, done) ==
    \A b \in 1..Len(boards) :
        LET marks == DrawnUpTo(IF b \in done THEN at[b] ELSE drawn)
        IN  \A row \in Index04 : \A col \in Index04 :
                /\ boards[b][row][col].number = boards0[b][row][col].number
                /\ boards[b][row][col].marked <=> boards0[b][row][col].number \in marks

\* What is returned is the score of the first and of the last board to
\* become complete.
FirstAndLast(at, done, place) ==
    \A f \in done : \A l \in done :
        (place[f] = 1 /\ place[l] = Cardinality(done)) =>
            result04 = [result |-> "Ok", first |-> ScoreAt(f, at[f]), last |-> ScoreAt(l, at[l])]

-----------------------------------------------------------------------------
(* day10: parse_line, called on every short string of brackets *)

Init10 ==
    /\ prog = "day10"
    /\ overflow_checks = TRUE
    /\ Idle09
    /\ Idle11Nb
    /\ Idle11
    /\ Idle15
    /\ Idle15e
    /\ Idle12
    /\ IdleMain
    /\ Idle04
    /\ IdleLate
    /\ line10 \in UNION {[1..n -> Openers \cup Closers] : n \in 0..MaxLen10}
    /\ parsed10 = NoLine
    /\ pc10 = "call"

ParseLine ==
    /\ prog = "day10"
    /\ pc10 = "call"
    /\ parsed10' = parse_line(line10)
    /\ pc10' = "returned"
    /\ UNCHANGED <<prog, overflow_checks, varsLate, vars09, vars11nb, vars11, vars15, vars15e, vars12,
                   varsMain, vars04, line10>>

Next10 == ParseLine

Spec10 == Init10 /\ [][Next10]_vars

\* The pairs of an opening character and the closing character it matches.
Matching == {<<"(", ")">>, <<"[", "]">>, <<"{", "}">>, <<"<", ">">>}

\* Openers less closers among the first k characters.
Depth(k) ==
    Cardinality({i \in 1..k : line10[i] \in Openers})
        - Cardinality({i \in 1..k : line10[i] \in Closers})

\* The positions of the openers that are unclosed after k characters: no
\* closer since has brought the depth below theirs.
Unclosed(k) ==
    {j \in 1..k : line10[j] \in Openers /\ \A m \in j..k : Depth(m) >= Depth(j)}

\* The character at i is a closer that does not match the most recent
\* unclosed opener, or there is none.
Mismatch(i) ==
    /\ line10[i] \in Closers
    /\ \/ Unclosed(i - 1) = {}
       \/ \E j \in Unclosed(i - 1) :
             /\ \A m \in Unclosed(i - 1) : m <= j
             /\ <<line10[j], line10[i]>> \notin Matching

\* The unclosed openers at the end, in the order they were opened.
UnclosedAtEnd ==
    LET open == Unclosed(Len(line10))
    IN  [n \in 1..Cardinality(open) |->
            line10[CHOOSE j \in open : Cardinality({m \in open : m <= j}) = n]]

\* C20: parse_line returns Corrupt(c) exactly when some closer does not
\* match the most recent unclosed opener or finds none open, c being the
\* first such character; otherwise Good when every opener is closed and
\* Incomplete(stack) when not, stack being the unclosed openers in the order
\* they were opened.
C20_ParseLine ==
    (prog = "day10" /\ pc10 = "returned") =>
        IF \E i \in 1..Len(line10) : Mismatch(i)
        THEN \E i \in 1..Len(line10) :
                /\ Mismatch(i)
                /\ \A j \in 1..(i - 1) : ~Mismatch(j)
                /\ parsed10 = Corrupt(line10[i])
        ELSE IF Unclosed(Len(line10)) = {} THEN parsed10 = Good
        ELSE parsed10 = Incomplete(UnclosedAtEnd)

\* parse_line("([)]"), a test of the repository, has returned Corrupt(')').
C20_Witness ==
    /\ prog = "day10"
    /\ pc10 = "returned"
    /\ line10 = <<"(", "[", ")", "]">>
    /\ parsed10 = Corrupt(")")

====
